---- MODULE Spec2Model ----
(***************************************************************************)
(* Model of the telegram-channel-id-bot security pipeline:                 *)
(*   - RateLimiter        (utils/rate-limiter.ts, src/unnamed/part_011)    *)
(*   - SecurityMiddleware (src/src/middleware/security-middleware.ts)      *)
(* Times are milliseconds, as returned by Date.now().                      *)
(***************************************************************************)
EXTENDS Integers, Sequences, FiniteSets, TLC

\* ------------------------------------------------------------------------
\* Bounds of the model
\* ------------------------------------------------------------------------
NumUsers == 2
NumChats == 1
MaxN == 2
\* granularity of the clock: every Tick advances Date.now() by Quantum ms
Quantum == 500
\* number of Ticks explored
MaxTicks == 2
\* the time window, in Quanta
Window == 2
\* the long penalty, in Quanta (outlasts the window)
LongPenalty == 3
\* the long window, in Quanta, and the Ticks explored with it
LongWindow == 17
LongTicks == 16
\* Date.now() at the first observed instant (any positive instant)
StartTime == 1000
\* the longest text over the small alphabet
MaxLen == 3

\* ------------------------------------------------------------------------
\* Program constants
\* ------------------------------------------------------------------------
\* chat limit is maxRequests * 5
ChatFactor == 5
\* progressive penalty cap: Math.min(penaltyCount, 5)
PenaltyCap == 5
\* remaining time is reported in seconds: Math.ceil(ms / 1000)
MsPerSecond == 1000

Users == 1..NumUsers
\* chat id 0 stands for an absent chatId (undefined and 0 are both falsy)
Chats == 1..NumChats
ChatArgs == 0..NumChats

Min(a, b) == IF a < b THEN a ELSE b

\* Math.ceil(ms / 1000) for ms > 0
CeilSeconds(ms) == (ms + MsPerSecond - 1) \div MsPerSecond

Cfg(n, p, g) ==
  [maxRequests |-> n, timeWindow |-> Window * Quantum,
   penaltyTime |-> p * Quantum, useProgressivePenalty |-> g]

\* RateLimitConfig values explored (globalConfig after the constructor merge)
\* with several users: a penalty shorter than the window and one that
\* outlasts it
Configs == { Cfg(1, 1, TRUE), Cfg(1, LongPenalty, FALSE) }

\* with a single user: every limit up to MaxN, without penalty, with a short
\* and with a long one, with and without progression
ConfigsOne ==
  { Cfg(n, p, g) : n \in 1..MaxN, p \in {0, 1, LongPenalty}, g \in BOOLEAN }

\* a window long enough for six violations of one user, penalty of a Quantum
ConfigsLong ==
  { [maxRequests |-> 1, timeWindow |-> LongWindow * Quantum,
     penaltyTime |-> Quantum, useProgressivePenalty |-> g] : g \in BOOLEAN }

\* the limiter was constructed one cleanup period (300000 ms) before the
\* last instant explored: its interval timer is due then
SweepAt == StartTime + MaxTicks * Quantum

\* the chat types of the platform; "none" stands for a context without chat
ChatTypes == {"private", "group", "supergroup", "channel"}

\* SecurityMiddlewareConfig; rateLimiting tells whether a limiter configuration
\* is set (the stage hands it to the limiter, whose own configuration it is)
MWConfig(rate, types, bot, admin, log, allowed) ==
  [rateLimiting |-> rate, validateChatTypes |-> types,
   checkBotPermissions |-> bot, requireAdmin |-> admin,
   logSecurityEvents |-> log, allowedChatTypes |-> allowed]

\* the defaults of the constructor
DefaultConfig == MWConfig(TRUE, TRUE, TRUE, FALSE, TRUE, ChatTypes)

\* every setting of the switches; channels are not on the allow-list
MWConfigs ==
  { MWConfig(rate, types, bot, admin, log, ChatTypes \ {"channel"}) :
      rate \in BOOLEAN, types \in BOOLEAN, bot \in BOOLEAN,
      admin \in BOOLEAN, log \in BOOLEAN }

\* the contexts of incoming updates: from 0 is a context without sender,
\* which comes without a chat or from a group
NoContext == [from |-> 0, chat |-> 0, chatType |-> "none"]
Contexts ==
  { [from |-> u, chat |-> 0, chatType |-> "none"] : u \in {0, 1} }
    \cup { [from |-> 1, chat |-> 1, chatType |-> t] :
             t \in {"private", "group", "channel"} }
    \cup { [from |-> 0, chat |-> 1, chatType |-> "group"] }

\* what a membership lookup answers: a member status, or nothing (the lookup
\* raised or the platform call is missing)
LookupResults == {"administrator", "member", "kicked", "unavailable"}

\* the invocations of the stage that can be in flight together
Invocations == {"a", "b"}

VARIABLES
  now,              \* Date.now()
  globalConfig,     \* RateLimiter.globalConfig
  userLimits,       \* RateLimiter.userLimits : Map<userId, RateLimitEntry>
  chatLimits,       \* RateLimiter.chatLimits : Map<chatId, RateLimitEntry>
  cleanupInterval,  \* TRUE while the setInterval timer is armed
  last,             \* the last operation and the result it returned
  \* history variables: they record calls and results only, never the
  \* limiter's own counters
  userWin,          \* per user: start of the observed window, calls seen in it
  chatWin,          \* per chat: start of the observed window, requests seen
  armedAt,          \* per user: time of a first-strike rate_limit rejection
  cleared,          \* users cleared and not yet seen again
  unswept,          \* the two maps of the same limiter had cleanup() never
                    \* run
  mwConfig,         \* SecurityMiddleware.config, as resolved by the stage
  inv,              \* the in-flight invocations of the security stage
  commands,         \* CommandRouter.commands : Map<name, CommandRegistration>
  aliasOf,          \* history: the name under which a key was last registered
  answer,           \* the last call on the registry and what it returned
  middlewares,      \* CommandRouter.middlewares
  route,            \* the in-flight invocations of routeCommand
  rateStage,        \* a stage made by createRateLimitMiddleware
  retry,            \* a RetryHandler and the call it is working on
  bot,              \* TelegramBot: isRunning and the start in flight
  proc              \* the process: the shutdown handler of index.ts

rlVars == <<now, globalConfig, userLimits, chatLimits, cleanupInterval,
            last>>
histVars == <<userWin, chatWin, armedAt, cleared, unswept>>
mwVars == <<mwConfig, inv>>
regVars == <<commands, aliasOf, answer>>
rtVars == <<middlewares, route>>
routerVars == <<regVars, rtVars>>
utilVars == <<rateStage, retry>>
appVars == <<bot, proc>>
vars == <<rlVars, histVars, mwVars, routerVars, utilVars, appVars>>

\* A RateLimitEntry; optional fields that are absent are 0 (the code tests
\* them by truthiness only: `entry.penaltyExpires &&`, `penaltyCount || 0`).
NewEntry(t, cfg) ==
  [count |-> 1, resetTime |-> t + cfg.timeWindow,
   penaltyExpires |-> 0, penaltyCount |-> 0]

MapSet(m, k, v) == [x \in (DOMAIN m) \cup {k} |-> IF x = k THEN v ELSE m[x]]
MapDelete(m, k) == [x \in (DOMAIN m) \ {k} |-> m[x]]
EmptyMap == [x \in {} |-> 0]

NotLimited == [isLimited |-> FALSE, remainingTime |-> 0, reason |-> "none"]
Limited(r, why) == [isLimited |-> TRUE, remainingTime |-> r, reason |-> why]

\* applyPenalty without the cap on the progressive factor
ApplyPenalty_NoCap(ul, userId, t, cfg) ==
  IF userId \notin DOMAIN ul \/ cfg.penaltyTime = 0
    THEN ul
    ELSE LET userEntry == ul[userId]
             penaltyCount == userEntry.penaltyCount + 1
             penaltyDuration ==
               IF cfg.useProgressivePenalty /\ penaltyCount > 1
                 THEN cfg.penaltyTime * penaltyCount
                 ELSE cfg.penaltyTime
         IN  MapSet(ul, userId,
                    [userEntry EXCEPT !.penaltyExpires = t + penaltyDuration,
                                      !.penaltyCount = penaltyCount])

\* RateLimiter.applyPenalty: the user map after the penalty is applied
ApplyPenalty(ul, userId, t, cfg) ==
  IF userId \notin DOMAIN ul \/ cfg.penaltyTime = 0
    THEN ul
    ELSE LET userEntry == ul[userId]
             penaltyCount == userEntry.penaltyCount + 1
             penaltyDuration ==
               IF cfg.useProgressivePenalty /\ penaltyCount > 1
                 THEN cfg.penaltyTime * Min(penaltyCount, PenaltyCap)
                 ELSE cfg.penaltyTime
         IN  MapSet(ul, userId,
                    [userEntry EXCEPT !.penaltyExpires = t + penaltyDuration,
                                      !.penaltyCount = penaltyCount])

\* checkUserLimit that honours a penalty only inside the window
CheckUserLimit_PenaltyInWindow(ul, userId, t, cfg) ==
  IF userId \in DOMAIN ul /\ ul[userId].penaltyExpires # 0
       /\ t < ul[userId].penaltyExpires /\ t < ul[userId].resetTime
    THEN [res |-> Limited(CeilSeconds(ul[userId].penaltyExpires - t), "penalty"),
          ul |-> ul]
    ELSE IF userId \in DOMAIN ul /\ t < ul[userId].resetTime
              /\ ul[userId].count >= cfg.maxRequests
      THEN [res |-> Limited(CeilSeconds(ul[userId].resetTime - t), "rate_limit"),
            ul |-> IF cfg.penaltyTime # 0
                     THEN ApplyPenalty(ul, userId, t, cfg) ELSE ul]
      ELSE [res |-> NotLimited, ul |-> ul]

\* RateLimiter.checkUserLimit: the result and the user map it leaves
CheckUserLimit(ul, userId, t, cfg) ==
  IF userId \in DOMAIN ul /\ ul[userId].penaltyExpires # 0
       /\ t < ul[userId].penaltyExpires
    THEN [res |-> Limited(CeilSeconds(ul[userId].penaltyExpires - t), "penalty"),
          ul |-> ul]
    ELSE IF userId \in DOMAIN ul /\ t < ul[userId].resetTime
              /\ ul[userId].count >= cfg.maxRequests
      THEN [res |-> Limited(CeilSeconds(ul[userId].resetTime - t), "rate_limit"),
            ul |-> IF cfg.penaltyTime # 0
                     THEN ApplyPenalty(ul, userId, t, cfg) ELSE ul]
      ELSE [res |-> NotLimited, ul |-> ul]

\* checkChatLimit that compares with maxRequests instead of maxRequests * 5
CheckChatLimit_NoFactor(cl, chatId, t, cfg) ==
  IF chatId \in DOMAIN cl /\ t < cl[chatId].resetTime
       /\ cl[chatId].count >= cfg.maxRequests
    THEN Limited(CeilSeconds(cl[chatId].resetTime - t), "chat_limit")
    ELSE NotLimited

\* RateLimiter.checkChatLimit
CheckChatLimit(cl, chatId, t, cfg) ==
  IF chatId \in DOMAIN cl /\ t < cl[chatId].resetTime
       /\ cl[chatId].count >= cfg.maxRequests * ChatFactor
    THEN Limited(CeilSeconds(cl[chatId].resetTime - t), "chat_limit")
    ELSE NotLimited

\* updateUserLimit that counts one request too few in a new window
UpdateUserLimit_StartsAtZero(ul, userId, t, cfg) ==
  IF userId \notin DOMAIN ul \/ t >= ul[userId].resetTime
    THEN MapSet(ul, userId, [NewEntry(t, cfg) EXCEPT !.count = 0])
    ELSE MapSet(ul, userId, [ul[userId] EXCEPT !.count = @ + 1])

\* updateUserLimit that keeps the old entry when its window has run out
UpdateUserLimit_NoReset(ul, userId, t, cfg) ==
  IF userId \notin DOMAIN ul
    THEN MapSet(ul, userId, NewEntry(t, cfg))
    ELSE MapSet(ul, userId, [ul[userId] EXCEPT !.count = @ + 1])

\* RateLimiter.updateUserLimit
UpdateUserLimit(ul, userId, t, cfg) ==
  IF userId \notin DOMAIN ul \/ t >= ul[userId].resetTime
    THEN MapSet(ul, userId, NewEntry(t, cfg))
    ELSE MapSet(ul, userId, [ul[userId] EXCEPT !.count = @ + 1])

\* RateLimiter.updateChatLimit
UpdateChatLimit(cl, chatId, t, cfg) ==
  IF chatId \notin DOMAIN cl \/ t >= cl[chatId].resetTime
    THEN MapSet(cl, chatId, NewEntry(t, cfg))
    ELSE MapSet(cl, chatId, [cl[chatId] EXCEPT !.count = @ + 1])

\* checkRateLimit that consults the chat limit before the user limit
CheckRateLimit_ChatFirst(ul, cl, userId, chatId, t, cfg) ==
  LET userResult == CheckUserLimit(ul, userId, t, cfg)
      chatResult == IF chatId # 0 THEN CheckChatLimit(cl, chatId, t, cfg)
                                  ELSE NotLimited
  IN  IF chatResult.isLimited
        THEN [res |-> chatResult, ul |-> ul, cl |-> cl]
        ELSE IF userResult.res.isLimited
          THEN [res |-> userResult.res, ul |-> userResult.ul, cl |-> cl]
          ELSE [res |-> NotLimited,
                ul |-> UpdateUserLimit(userResult.ul, userId, t, cfg),
                cl |-> IF chatId # 0 THEN UpdateChatLimit(cl, chatId, t, cfg)
                                     ELSE cl]

\* checkRateLimit that only checks: the admitted request is not recorded
CheckRateLimit_ChecksOnly(ul, cl, userId, chatId, t, cfg) ==
  LET userResult == CheckUserLimit(ul, userId, t, cfg)
      chatResult == IF chatId # 0 THEN CheckChatLimit(cl, chatId, t, cfg)
                                  ELSE NotLimited
  IN  IF userResult.res.isLimited
        THEN [res |-> userResult.res, ul |-> userResult.ul, cl |-> cl]
        ELSE IF chatResult.isLimited
          THEN [res |-> chatResult, ul |-> userResult.ul, cl |-> cl]
          ELSE [res |-> NotLimited, ul |-> userResult.ul, cl |-> cl]

\* checkRateLimit that records the request before it looks at the limits
CheckRateLimit_RecordsFirst(ul, cl, userId, chatId, t, cfg) ==
  LET userResult == CheckUserLimit(ul, userId, t, cfg)
      chatResult == IF chatId # 0 THEN CheckChatLimit(cl, chatId, t, cfg)
                                  ELSE NotLimited
      ulAfter == UpdateUserLimit(userResult.ul, userId, t, cfg)
      clAfter == IF chatId # 0 THEN UpdateChatLimit(cl, chatId, t, cfg)
                               ELSE cl
  IN  IF userResult.res.isLimited
        THEN [res |-> userResult.res, ul |-> ulAfter, cl |-> clAfter]
        ELSE IF chatResult.isLimited
          THEN [res |-> chatResult, ul |-> ulAfter, cl |-> clAfter]
          ELSE [res |-> NotLimited, ul |-> ulAfter, cl |-> clAfter]

\* RateLimiter.checkRateLimit: result and both maps after the call
CheckRateLimit(ul, cl, userId, chatId, t, cfg) ==
  LET userResult == CheckUserLimit(ul, userId, t, cfg)
      chatResult == IF chatId # 0 THEN CheckChatLimit(cl, chatId, t, cfg)
                                  ELSE NotLimited
  IN  IF userResult.res.isLimited
        THEN [res |-> userResult.res, ul |-> userResult.ul, cl |-> cl]
        ELSE IF chatResult.isLimited
          THEN [res |-> chatResult, ul |-> userResult.ul, cl |-> cl]
          ELSE [res |-> NotLimited,
                ul |-> UpdateUserLimit(userResult.ul, userId, t, cfg),
                cl |-> IF chatId # 0 THEN UpdateChatLimit(cl, chatId, t, cfg)
                                     ELSE cl]

\* cleanup that removes every user entry
CleanupUsers_All(ul, t) == EmptyMap

\* cleanup that looks at the window only
CleanupUsers_IgnoresPenalty(ul, t) ==
  [x \in {u \in DOMAIN ul : ~(t >= ul[u].resetTime)} |-> ul[x]]

\* RateLimiter.cleanup: the maps after the sweep at time t
CleanupUsers(ul, t) ==
  LET isExpired(e) == t >= e.resetTime
                        /\ (e.penaltyExpires = 0 \/ t >= e.penaltyExpires)
  IN  [x \in {u \in DOMAIN ul : ~isExpired(ul[u])} |-> ul[x]]

CleanupChats(cl, t) ==
  [x \in {c \in DOMAIN cl : ~(t >= cl[c].resetTime)} |-> cl[x]]

\* what an operation on user u finds: the state of u's entry before it
Found(u) ==
  IF u \notin DOMAIN userLimits THEN "untracked"
  ELSE IF userLimits[u].penaltyExpires # 0
          /\ now < userLimits[u].penaltyExpires THEN "penalized"
  ELSE IF now < userLimits[u].resetTime THEN "live"
  ELSE IF userLimits[u].penaltyExpires # 0 THEN "expiredPenalty"
  ELSE "expired"

\* the record of an operation: its arguments, what it found, its result
Op(name, u, c, res) ==
  [op |-> name, user |-> u, chat |-> c,
   found |-> IF u = 0 THEN "none" ELSE Found(u), res |-> res]

\* ------------------------------------------------------------------------
\* History of calls and results
\* ------------------------------------------------------------------------
NoWin == [start |-> 0, n |-> 0]
InWin(w, t, cfg) == w.start # 0 /\ t < w.start + cfg.timeWindow

\* a window is observed to start with the first admitted call after the
\* previous one has run out; calls are counted up to cap
Observe(w, t, cfg, admitted, counted, cap) ==
  IF admitted /\ ~InWin(w, t, cfg) THEN [start |-> t, n |-> 1]
  ELSE IF counted /\ InWin(w, t, cfg) THEN [w EXCEPT !.n = Min(@ + 1, cap)]
  ELSE w

\* history after checkRateLimit(userId, chatId) returned res at time t
UserWinAfterCall(userId, t, cfg, res) ==
  [userWin EXCEPT ![userId] =
     Observe(@, t, cfg, ~res.isLimited, res.reason # "chat_limit",
             cfg.maxRequests + 1)]

ChatWinAfterCall(chatId, t, cfg, res) ==
  IF chatId = 0 THEN chatWin
  ELSE [chatWin EXCEPT ![chatId] =
          Observe(@, t, cfg, ~res.isLimited,
                  res.reason \in {"none", "chat_limit"},
                  cfg.maxRequests * ChatFactor + 1)]

\* the time of the last rate_limit rejection of a user that had no strike
\* before the call; forgotten with the next admitted call
ArmedAfterCall(userId, t, res, strikes) ==
  [armedAt EXCEPT ![userId] =
     IF res.reason = "rate_limit" THEN (IF strikes = 0 THEN t ELSE 0)
     ELSE IF ~res.isLimited THEN 0 ELSE @]

\* history of the subjects whose entry is gone is forgotten
ForgetUsers(w, ul) == [u \in Users |-> IF u \in DOMAIN ul THEN w[u] ELSE NoWin]
ForgetChats(w, cl) == [c \in Chats |-> IF c \in DOMAIN cl THEN w[c] ELSE NoWin]

Strikes(ul, u) == IF u \in DOMAIN ul THEN ul[u].penaltyCount ELSE 0

\* the limiter without cleanup before its first call
NoRequests == [ul |-> EmptyMap, cl |-> EmptyMap]

\* ------------------------------------------------------------------------
\* Actions of the rate limiter
\* ------------------------------------------------------------------------
RLInit(configs) ==
  /\ now = StartTime
  /\ globalConfig \in configs
  /\ userLimits = EmptyMap
  /\ chatLimits = EmptyMap
  /\ cleanupInterval = TRUE
  /\ last = Op("init", 0, 0, NotLimited)
  /\ userWin = [u \in Users |-> NoWin]
  /\ chatWin = [c \in Chats |-> NoWin]
  /\ armedAt = [u \in Users |-> 0]
  /\ cleared = {}
  /\ unswept = NoRequests

\* the limiter without cleanup takes the same call
UnsweptResult(userId, chatId) ==
  CheckRateLimit(unswept.ul, unswept.cl, userId, chatId, now, globalConfig)
UnsweptAfterCall(userId, chatId) ==
  LET r == UnsweptResult(userId, chatId) IN [ul |-> r.ul, cl |-> r.cl]

\* rateLimiter.checkRateLimit(userId, chatId) is called and returns
CheckRateLimitCall(userId, chatId) ==
  LET r == CheckRateLimit(userLimits, chatLimits, userId, chatId, now,
                          globalConfig)
  IN  /\ userLimits' = r.ul
      /\ chatLimits' = r.cl
      /\ last' = Op("check", userId, chatId, r.res)
      /\ userWin' = UserWinAfterCall(userId, now, globalConfig, r.res)
      /\ chatWin' = ChatWinAfterCall(chatId, now, globalConfig, r.res)
      /\ armedAt' = ArmedAfterCall(userId, now, r.res,
                                   Strikes(userLimits, userId))
      /\ cleared' = cleared \ {userId}
      /\ unswept' = UnsweptAfterCall(userId, chatId)
      /\ UNCHANGED <<now, globalConfig, cleanupInterval>>

\* a direct call rateLimiter.checkRateLimit(userId, chatId)
DoCheckRateLimit(userId, chatId) ==
  /\ CheckRateLimitCall(userId, chatId)
  /\ UNCHANGED <<mwVars, routerVars, utilVars, appVars>>

\* clearUserLimit that clears the whole user map
ClearUserLimit_All(userId) ==
  /\ userLimits' = EmptyMap
  /\ last' = Op("clearUser", userId, 0, NotLimited)
  /\ userWin' = [u \in Users |-> NoWin]
  /\ armedAt' = [u \in Users |-> 0]
  /\ cleared' = cleared \cup {userId}
  /\ unswept' = [unswept EXCEPT !.ul = EmptyMap]
  /\ UNCHANGED <<now, globalConfig, chatLimits, cleanupInterval, chatWin,
                 mwVars, routerVars, utilVars, appVars>>

\* RateLimiter.clearUserLimit
ClearUserLimit(userId) ==
  /\ userLimits' = MapDelete(userLimits, userId)
  /\ last' = Op("clearUser", userId, 0, NotLimited)
  /\ userWin' = [userWin EXCEPT ![userId] = NoWin]
  /\ armedAt' = [armedAt EXCEPT ![userId] = 0]
  /\ cleared' = cleared \cup {userId}
  /\ unswept' = [unswept EXCEPT !.ul = MapDelete(@, userId)]
  /\ UNCHANGED <<now, globalConfig, chatLimits, cleanupInterval, chatWin,
                 mwVars, routerVars, utilVars, appVars>>

ClearChatLimit(chatId) ==
  /\ chatLimits' = MapDelete(chatLimits, chatId)
  /\ last' = Op("clearChat", 0, chatId, NotLimited)
  /\ chatWin' = [chatWin EXCEPT ![chatId] = NoWin]
  /\ unswept' = [unswept EXCEPT !.cl = MapDelete(@, chatId)]
  /\ UNCHANGED <<now, globalConfig, userLimits, cleanupInterval, userWin,
                 armedAt, cleared, mwVars,
                 routerVars, utilVars, appVars>>

\* RateLimiter.cleanup() runs
RunCleanup ==
  /\ userLimits' = CleanupUsers(userLimits, now)
  /\ chatLimits' = CleanupChats(chatLimits, now)
  /\ last' = Op("cleanup", 0, 0, NotLimited)
  /\ userWin' = ForgetUsers(userWin, userLimits')
  /\ chatWin' = ForgetChats(chatWin, chatLimits')
  /\ UNCHANGED <<now, globalConfig, cleanupInterval, armedAt, cleared,
                 unswept, mwVars, routerVars, utilVars, appVars>>

\* the interval timer fires when it is due and runs cleanup()
Cleanup ==
  /\ cleanupInterval
  /\ now = SweepAt
  /\ RunCleanup

\* the interval timer of a limiter constructed at any earlier time fires
CleanupAnyTime == cleanupInterval /\ RunCleanup

\* RateLimiter.stop: what it does to the limiter
StopLimiter ==
  /\ cleanupInterval' = FALSE
  /\ userLimits' = EmptyMap
  /\ chatLimits' = EmptyMap
  /\ last' = Op("stop", 0, 0, NotLimited)
  /\ userWin' = [u \in Users |-> NoWin]
  /\ chatWin' = [c \in Chats |-> NoWin]
  /\ armedAt' = [u \in Users |-> 0]
  /\ unswept' = NoRequests
  /\ UNCHANGED <<now, globalConfig, cleared>>

Stop == StopLimiter /\ UNCHANGED <<mwVars, routerVars, utilVars, appVars>>

\* the clock advances by one Quantum, up to maxT Quanta after StartTime
Tick(maxT) ==
  /\ now + Quantum <= StartTime + maxT * Quantum
  /\ now' = now + Quantum
  /\ last' = Op("tick", 0, 0, NotLimited)
  /\ UNCHANGED <<globalConfig, userLimits, chatLimits, cleanupInterval,
                 histVars, mwVars, routerVars, utilVars, appVars>>

\* ------------------------------------------------------------------------
\* The security stage (SecurityMiddleware.createMiddleware)
\* ------------------------------------------------------------------------
\* An invocation is suspended at its awaits only: an action below is the code
\* that runs from one suspension point to the next.
NewInvocation(ctx, step) ==
  [pc |-> step, from |-> ctx.from, chat |-> ctx.chat,
   chatType |-> ctx.chatType, checks |-> <<>>, failed |-> "none",
   raised |-> FALSE, replies |-> 0, sanitized |-> 0, replyFailed |-> FALSE,
   nexts |-> 0, events |-> <<>>]

\* the steps of the stage in the order of the code, and their switches
Order == <<"rate", "chat", "bot", "admin">>
StepEnabled(step) ==
  CASE step = "rate" -> mwConfig.rateLimiting
    [] step = "chat" -> mwConfig.validateChatTypes
    [] step = "bot" -> mwConfig.checkBotPermissions
    [] step = "admin" -> mwConfig.requireAdmin

\* the first enabled step from position k on; "allow" after the last one
RECURSIVE StepFrom(_)
StepFrom(k) ==
  IF k > Len(Order) THEN "allow"
  ELSE IF StepEnabled(Order[k]) THEN Order[k]
  ELSE StepFrom(k + 1)

\* the event logged after the reply of a rejecting step
EventOf(step) ==
  CASE step = "rate" -> "rate_limit_exceeded"
    [] step = "chat" -> "invalid_chat_type"
    [] step = "bot" -> "insufficient_bot_permissions"
    [] step = "admin" -> "admin_permission_denied"

\* the step evaluates its check
Evaluated(r, step) == [r EXCEPT !.checks = Append(@, step)]

\* the check passed: the stage goes on with the next enabled step
Passed(r, k) == [r EXCEPT !.pc = StepFrom(k + 1)]

\* the check failed: the step calls ctx.reply and awaits it
Rejecting(r, step) ==
  [r EXCEPT !.failed = step, !.replies = @ + 1, !.pc = "reply"]

\* an exception reached the catch of the stage: handleSecurityError calls
\* ctx.reply with the sanitized message and awaits it
HandleSecurityError(r) ==
  [r EXCEPT !.raised = TRUE, !.replies = @ + 1, !.sanitized = @ + 1,
            !.pc = "errReply"]

\* checkBotPermissions that lets an ordinary member post in a channel
BotHasPermission_MemberPosts(chatType, status) ==
  status \in {"member", "administrator", "creator"}

\* SecurityService.checkBotPermissions, given the bot's member status
\* ("unavailable": getMe or getChatMember raised or gave nothing)
BotHasPermission(chatType, status) ==
  CASE chatType \in {"group", "supergroup"} ->
         status \in {"member", "administrator", "creator"}
    [] chatType = "channel" -> status \in {"administrator", "creator"}
    [] OTHER -> FALSE

\* SecurityService.checkUserAdminPermissions, given the user's member status
UserIsAdmin(status) == status \in {"administrator", "creator"}

MWInit(configs) ==
  /\ mwConfig \in configs
  /\ inv = [i \in Invocations |-> NewInvocation(NoContext, "idle")]

\* the router calls the stage with the context of an update
Invoke(i, ctx) ==
  /\ inv[i].pc \in {"idle", "done"}
  /\ inv' = [inv EXCEPT ![i] = NewInvocation(ctx, StepFrom(1))]
  /\ UNCHANGED <<rlVars, histVars, mwConfig, routerVars, utilVars, appVars>>

\* step 1, SecurityMiddleware.checkRateLimit up to its await
RateLimitStep(i) ==
  LET r == Evaluated(inv[i], "rate")
  IN  /\ inv[i].pc = "rate"
      /\ IF r.from = 0
           THEN /\ inv' = [inv EXCEPT ![i] = Passed(r, 1)]
                /\ UNCHANGED <<rlVars, histVars>>
           ELSE /\ CheckRateLimitCall(r.from, r.chat)
                /\ inv' = [inv EXCEPT ![i] =
                             IF last'.res.isLimited THEN Rejecting(r, "rate")
                             ELSE Passed(r, 1)]
      /\ UNCHANGED <<mwConfig, routerVars, utilVars, appVars>>

\* validateChatType that gives the quota back when it rejects
ChatTypeStep_Refunds(i, throws) ==
  LET r == Evaluated(inv[i], "chat")
      isValid == r.chatType # "none"
                   /\ r.chatType \in mwConfig.allowedChatTypes
  IN  /\ inv[i].pc = "chat"
      /\ inv' = [inv EXCEPT ![i] =
                   IF throws THEN HandleSecurityError([r EXCEPT !.failed = "chat"])
                   ELSE IF isValid THEN Passed(r, 2)
                   ELSE Rejecting(r, "chat")]
      /\ userLimits' =
           IF ~throws /\ ~isValid /\ r.from \in DOMAIN userLimits
                /\ userLimits[r.from].count > 0
             THEN [userLimits EXCEPT ![r.from].count = @ - 1]
             ELSE userLimits
      /\ UNCHANGED <<now, globalConfig, chatLimits, cleanupInterval, last,
                     histVars, mwConfig, routerVars, utilVars, appVars>>

\* step 2, SecurityMiddleware.validateChatType up to its await; throws: the
\* service call raises
ChatTypeStep(i, throws) ==
  LET r == Evaluated(inv[i], "chat")
      isValid == r.chatType # "none"
                   /\ r.chatType \in mwConfig.allowedChatTypes
  IN  /\ inv[i].pc = "chat"
      /\ inv' = [inv EXCEPT ![i] =
                   IF throws THEN HandleSecurityError([r EXCEPT !.failed = "chat"])
                   ELSE IF isValid THEN Passed(r, 2)
                   ELSE Rejecting(r, "chat")]
      /\ UNCHANGED <<rlVars, histVars, mwConfig, routerVars, utilVars, appVars>>

\* step 3, SecurityService.checkBotPermissions up to its first lookup
BotPermissionStep(i) ==
  LET r == Evaluated(inv[i], "bot")
  IN  /\ inv[i].pc = "bot"
      /\ inv' = [inv EXCEPT ![i] =
                   IF r.chatType = "none" \/ r.chat = 0
                     THEN Rejecting(r, "bot")
                   ELSE IF r.chatType = "private" THEN Passed(r, 3)
                   ELSE [r EXCEPT !.pc = "botLookup"]]
      /\ UNCHANGED <<rlVars, histVars, mwConfig, routerVars, utilVars, appVars>>

\* getMe and getChatMember of the bot have answered
BotLookupDone(i, status) ==
  /\ inv[i].pc = "botLookup"
  /\ inv' = [inv EXCEPT ![i] =
               IF BotHasPermission(@.chatType, status) THEN Passed(@, 3)
               ELSE Rejecting(@, "bot")]
  /\ UNCHANGED <<rlVars, histVars, mwConfig, routerVars, utilVars, appVars>>

\* step 4, SecurityService.checkUserAdminPermissions up to its lookup
AdminStep(i) ==
  LET r == Evaluated(inv[i], "admin")
  IN  /\ inv[i].pc = "admin"
      /\ inv' = [inv EXCEPT ![i] =
                   IF r.from = 0 \/ r.chatType = "none" \/ r.chat = 0
                     THEN Rejecting(r, "admin")
                   ELSE IF r.chatType = "private" THEN Passed(r, 4)
                   ELSE [r EXCEPT !.pc = "adminLookup"]]
      /\ UNCHANGED <<rlVars, histVars, mwConfig, routerVars, utilVars, appVars>>

\* getChatMember of the requester has answered
AdminLookupDone(i, status) ==
  /\ inv[i].pc = "adminLookup"
  /\ inv' = [inv EXCEPT ![i] =
               IF UserIsAdmin(status) THEN Passed(@, 4)
               ELSE Rejecting(@, "admin")]
  /\ UNCHANGED <<rlVars, histVars, mwConfig, routerVars, utilVars, appVars>>

\* the reply of a rejecting step that lets the stage go on with the next step
ReplyDone_FallsThrough(i, ok) ==
  /\ inv[i].pc = "reply"
  /\ inv' = [inv EXCEPT ![i] =
               [@ EXCEPT !.replyFailed = ~ok,
                         !.events = Append(@, EventOf(inv[i].failed)),
                         !.pc = "allow"]]
  /\ UNCHANGED <<rlVars, histVars, mwConfig, routerVars, utilVars, appVars>>

\* a rejecting step whose failed reply escapes to the catch of the stage
ReplyDone_Uncaught(i, ok) ==
  /\ inv[i].pc = "reply"
  /\ inv' = [inv EXCEPT ![i] =
               IF ok THEN [@ EXCEPT !.events = Append(@, EventOf(inv[i].failed)),
                                    !.pc = "done"]
               ELSE HandleSecurityError([@ EXCEPT !.replyFailed = TRUE])]
  /\ UNCHANGED <<rlVars, histVars, mwConfig, routerVars, utilVars, appVars>>

\* the reply of a rejecting step resolved (ok) or was rejected and caught;
\* the step logs its event and the stage returns
ReplyDone(i, ok) ==
  /\ inv[i].pc = "reply"
  /\ inv' = [inv EXCEPT ![i] =
               [@ EXCEPT !.replyFailed = ~ok,
                         !.events = Append(@, EventOf(inv[i].failed)),
                         !.pc = "done"]]
  /\ UNCHANGED <<rlVars, histVars, mwConfig, routerVars, utilVars, appVars>>

\* step 5: the command_allowed event, then the call of next
AllowStep(i) ==
  /\ inv[i].pc = "allow"
  /\ inv' = [inv EXCEPT ![i] =
               [@ EXCEPT !.events = IF mwConfig.logSecurityEvents
                                      THEN Append(@, "command_allowed")
                                      ELSE @,
                         !.nexts = @ + 1,
                         !.pc = "next"]]
  /\ UNCHANGED <<rlVars, histVars, mwConfig, routerVars, utilVars, appVars>>

\* next() resolved (ok) or rejected: the rest of the chain raised
NextResult(r, ok) ==
  IF ok THEN [r EXCEPT !.pc = "done"] ELSE HandleSecurityError(r)

NextDone(i, ok) ==
  /\ inv[i].pc = "next"
  /\ inv' = [inv EXCEPT ![i] = NextResult(@, ok)]
  /\ UNCHANGED <<rlVars, histVars, mwConfig, routerVars, utilVars, appVars>>

\* handleSecurityError that lets the failure of its reply escape the stage
ErrorReplyDone_Rethrows(i, ok) ==
  /\ inv[i].pc = "errReply"
  /\ inv' = [inv EXCEPT ![i] =
               [@ EXCEPT !.replyFailed = ~ok,
                         !.events = IF mwConfig.logSecurityEvents /\ ok
                                      THEN Append(@, "security_middleware_error")
                                      ELSE @,
                         !.pc = IF ok THEN "done" ELSE "threw"]]
  /\ UNCHANGED <<rlVars, histVars, mwConfig, routerVars, utilVars, appVars>>

\* the reply of handleSecurityError resolved or was rejected and caught; the
\* stage returns to its caller
ErrorReplyDone(i, ok) ==
  /\ inv[i].pc = "errReply"
  /\ inv' = [inv EXCEPT ![i] =
               [@ EXCEPT !.replyFailed = ~ok,
                         !.events = IF mwConfig.logSecurityEvents
                                      THEN Append(@, "security_middleware_error")
                                      ELSE @,
                         !.pc = "done"]]
  /\ UNCHANGED <<rlVars, histVars, mwConfig, routerVars, utilVars, appVars>>

\* ------------------------------------------------------------------------
\* The command router (CommandRouter): registry and command resolution
\* ------------------------------------------------------------------------
\* Message texts and command names are sequences of characters.
UpperCase ==
  <<"A", "B", "C", "D", "E", "F", "G", "H", "I", "J", "K", "L", "M",
    "N", "O", "P", "Q", "R", "S", "T", "U", "V", "W", "X", "Y", "Z">>
LowerCase ==
  <<"a", "b", "c", "d", "e", "f", "g", "h", "i", "j", "k", "l", "m",
    "n", "o", "p", "q", "r", "s", "t", "u", "v", "w", "x", "y", "z">>
Digits == {"0", "1", "2", "3", "4", "5", "6", "7", "8", "9"}
Range(s) == {s[k] : k \in DOMAIN s}

\* String.prototype.toLowerCase
LowerChar(c) ==
  IF c \in Range(UpperCase)
    THEN LowerCase[CHOOSE k \in DOMAIN UpperCase : UpperCase[k] = c]
    ELSE c

\* toLowerCase that leaves the text as it is
ToLowerCase_Identity(s) == s

ToLowerCase(s) == [k \in 1..Len(s) |-> LowerChar(s[k])]

\* the character class [a-zA-Z0-9_]
IsWordChar(c) ==
  c \in Range(UpperCase) \cup Range(LowerCase) \cup Digits \cup {"_"}

\* replace(/^\//, ""): one leading slash is removed
StripSlash(s) == IF s # <<>> /\ s[1] = "/" THEN Tail(s) ELSE s

\* the normal form of a name: toLowerCase().replace(/^\//, "")
NormalizeName(s) == StripSlash(ToLowerCase(s))

\* the length of the longest run of word characters of s from position k on
RECURSIVE WordRun(_, _)
WordRun(s, k) ==
  IF k > Len(s) \/ ~IsWordChar(s[k]) THEN 0 ELSE 1 + WordRun(s, k + 1)

\* null, the result of extractCommand for a text that is no command
NoCommand == <<>>

\* CommandRouter.extractCommand: the first group of
\* /^\/([a-zA-Z0-9_]+)(?:@\w+)?/, lower-cased; a text that is absent or empty
\* is <<>>
ExtractCommand(text) ==
  IF text = <<>> \/ text[1] # "/" THEN NoCommand
  ELSE ToLowerCase(SubSeq(text, 2, 1 + WordRun(text, 2)))

\* handlers are known by their identity; NoHandler is a missing handler
NoHandler == "none"

\* an optional field of a registration: given or absent
Given(v) == [given |-> TRUE, value |-> v]
AbsentList == [given |-> FALSE, value |-> <<>>]
AbsentSet == [given |-> FALSE, value |-> {}]

\* a CommandRegistration
Registration(command, handler, aliases, allowedChatTypes, requiresAdmin) ==
  [command |-> command, handler |-> handler, aliases |-> aliases,
   allowedChatTypes |-> allowedChatTypes, requiresAdmin |-> requiresAdmin]

\* registerCommand stores under key a copy of the registration whose command
\* is the key
RECURSIVE SetAliases(_, _, _)
SetAliases(cmds, registration, k) ==
  IF k > Len(registration.aliases.value) THEN cmds
  ELSE LET normalizedAlias == NormalizeName(registration.aliases.value[k])
       IN  SetAliases(MapSet(cmds, normalizedAlias,
                             [registration EXCEPT !.command = normalizedAlias]),
                      registration, k + 1)

\* CommandRouter.registerCommand: the registry after the call; the call throws
\* and changes nothing when the command or the handler is missing
RegistrationInvalid(registration) ==
  registration.command = <<>> \/ registration.handler = NoHandler

Registered(cmds, registration) ==
  LET commandName == NormalizeName(registration.command)
      stored == MapSet(cmds, commandName,
                       [registration EXCEPT !.command = commandName])
  IN  IF registration.aliases.given
        THEN SetAliases(stored, registration, 1)
        ELSE stored

\* history: the keys written by a call, each with the name of the command
RECURSIVE NameAliases(_, _, _, _)
NameAliases(names, aliases, commandName, k) ==
  IF k > Len(aliases) THEN names
  ELSE NameAliases(MapSet(names, NormalizeName(aliases[k]), commandName),
                   aliases, commandName, k + 1)

AliasOfAfter(names, registration) ==
  LET commandName == NormalizeName(registration.command)
  IN  NameAliases(MapSet(names, commandName, commandName),
                  registration.aliases.value, commandName, 1)

\* validateCommandContext that accepts every context
ValidateCommandContext_AcceptsAll(chatType, registration) == TRUE

\* CommandRouter.validateCommandContext; chatType "none": a context without
\* chat
ValidateCommandContext(chatType, registration) ==
  ~(/\ registration.allowedChatTypes.given
    /\ chatType # "none"
    /\ chatType \notin registration.allowedChatTypes.value)

\* CommandRouter.isCommandRegistered
IsCommandRegistered(cmds, command) == NormalizeName(command) \in DOMAIN cmds

\* CommandRouter.getRegisteredCommands: the first entry of every command
\* name (an entry's command is its key, so that no two entries share one)
GetRegisteredCommands(cmds) == {cmds[k] : k \in DOMAIN cmds}

\* routeCommand up to its first await: what it decides for a text
\*   "ignored": no command, it returns; "unknown": handleUnknownCommand;
\*   "invalidContext": handleInvalidContext; "execute": the middleware chain
Decision(outcome, key, handler) ==
  [outcome |-> outcome, key |-> key, handler |-> handler]

\* routeCommand that returns without a word for a command it does not know
Decide_IgnoresUnknown(cmds, text, chatType) ==
  LET command == ExtractCommand(text)
      key == ToLowerCase(command)
  IN  IF command = NoCommand \/ key \notin DOMAIN cmds
        THEN Decision("ignored", NoCommand, NoHandler)
      ELSE IF ~ValidateCommandContext(chatType, cmds[key])
        THEN Decision("invalidContext", key, cmds[key].handler)
      ELSE Decision("execute", key, cmds[key].handler)

Decide(cmds, text, chatType) ==
  LET command == ExtractCommand(text)
      key == ToLowerCase(command)
  IN  IF command = NoCommand THEN Decision("ignored", NoCommand, NoHandler)
      ELSE IF key \notin DOMAIN cmds THEN Decision("unknown", key, NoHandler)
      ELSE IF ~ValidateCommandContext(chatType, cmds[key])
        THEN Decision("invalidContext", key, cmds[key].handler)
      ELSE Decision("execute", key, cmds[key].handler)

\* the names of the commands, as texts
Name_chatid == <<"c", "h", "a", "t", "i", "d">>
Name_id == <<"i", "d">>
Name_info == <<"i", "n", "f", "o">>
Name_help == <<"h", "e", "l", "p">>
Name_h == <<"h">>
Name_start == <<"s", "t", "a", "r", "t">>
Name_x == <<"x">>
Name_y == <<"y">>
Name_ban == <<"b", "a", "n">>

\* CommandRouter.registerDefaultCommands
DefaultRegistrations ==
  << Registration(Name_chatid, "chatIdHandler.handle",
                  Given(<<Name_id, Name_chatid>>), Given(ChatTypes), FALSE),
     Registration(Name_info, "infoHandler.handle",
                  AbsentList, Given(ChatTypes), FALSE),
     Registration(Name_help, "helpHandler.handleHelp",
                  Given(<<Name_h>>), Given(ChatTypes), FALSE),
     Registration(Name_start, "helpHandler.handleStart",
                  AbsentList, Given(ChatTypes), FALSE) >>

RECURSIVE RegisterAll(_, _, _)
RegisterAll(cmds, registrations, k) ==
  IF k > Len(registrations) THEN cmds
  ELSE RegisterAll(Registered(cmds, registrations[k]), registrations, k + 1)

RECURSIVE NameAll(_, _, _)
NameAll(names, registrations, k) ==
  IF k > Len(registrations) THEN names
  ELSE NameAll(AliasOfAfter(names, registrations[k]), registrations, k + 1)

\* the registrations that callers make
ToUpperCase(s) ==
  [k \in 1..Len(s) |->
     IF s[k] \in Range(LowerCase)
       THEN UpperCase[CHOOSE j \in DOMAIN LowerCase : LowerCase[j] = s[k]]
       ELSE s[k]]

\* a command that callers register for private chats only
PrivateOnly ==
  Registration(<<"/">> \o ToUpperCase(Name_x), "h1",
               Given(<<<<"/">> \o ToUpperCase(Name_id), Name_y>>),
               Given({"private"}), FALSE)

\* a command that callers register for administrators only
AdminOnly == Registration(Name_ban, "h2", AbsentList, AbsentSet, TRUE)

CallerRegistrations ==
  { Registration(Name_chatid, "h1", AbsentList, AbsentSet, FALSE),
    PrivateOnly,
    Registration(Name_x, "h2", Given(<< >>), Given({}), TRUE),
    Registration(Name_y, "h2", AbsentList, AbsentSet, FALSE),
    Registration(<<>>, "h1", AbsentList, AbsentSet, FALSE),
    Registration(Name_x, NoHandler, AbsentList, AbsentSet, FALSE) }

\* the texts of incoming messages: every text of up to MaxLen characters
\* over a small alphabet, and the commands with and without a mention of the
\* bot and arguments
TextAlphabet == {"/", "h", "H", "@", " "}
ShortTexts == UNION {[1..n -> TextAlphabet] : n \in 0..MaxLen}
CommandNames ==
  {Name_chatid, Name_id, Name_help, Name_h, Name_x, Name_y, <<"f", "o", "o">>}
CaseVariants(w) == {w, ToUpperCase(w), <<ToUpperCase(w)[1]>> \o Tail(w)}
Words == UNION {CaseVariants(w) : w \in CommandNames}
Mentions == {<< >>, <<"@", "s", "o", "m", "e", "b", "o", "t">>}
Arguments == {<< >>, <<" ", "e", "x", "t", "r", "a">>, <<"-", "x">>}
CommandText(word, mention, arguments) ==
  <<"/">> \o word \o mention \o arguments
CommandTexts ==
  {CommandText(w, m, a) : w \in Words, m \in Mentions, a \in Arguments}
Texts == ShortTexts \cup CommandTexts

\* the texts sent to a router whose registry changes
RouteTexts ==
  { << >>, <<"/">>, CommandText(Name_chatid, << >>, << >>),
    CommandText(ToUpperCase(Name_id), << >>, << >>),
    CommandText(Name_x, << >>, << >>), CommandText(Name_y, << >>, << >>) }

\* the names asked for with isCommandRegistered
AskedNames ==
  LET names == {Name_chatid, Name_id, Name_h, Name_x, Name_y}
  IN  names \cup {ToUpperCase(w) : w \in names}
        \cup {<<"/">> \o w : w \in names}
        \cup {<<"/">> \o ToUpperCase(w) : w \in names}
        \cup {<<"/", "/">> \o w : w \in names}

NoAnswer ==
  [op |-> "none", text |-> << >>, chatType |-> "none",
   result |-> Decision("none", NoCommand, NoHandler)]

\* the router after construction: the default commands are registered
RegistryInit ==
  /\ commands = RegisterAll(EmptyMap, DefaultRegistrations, 1)
  /\ aliasOf = NameAll(EmptyMap, DefaultRegistrations, 1)
  /\ answer = NoAnswer

\* router.registerCommand(registration)
RegisterCommand(registration) ==
  /\ IF RegistrationInvalid(registration)
       THEN /\ UNCHANGED <<commands, aliasOf>>
            /\ answer' = [NoAnswer EXCEPT !.op = "registerThrew"]
       ELSE /\ commands' = Registered(commands, registration)
            /\ aliasOf' = AliasOfAfter(aliasOf, registration)
            /\ answer' = [NoAnswer EXCEPT !.op = "register",
                                          !.text = registration.command]
  /\ UNCHANGED <<rlVars, histVars, mwVars, rtVars, utilVars, appVars>>

\* routeCommand decides what to do with a message
Resolve(text, chatType) ==
  /\ answer' = [op |-> "route", text |-> text, chatType |-> chatType,
                result |-> Decide(commands, text, chatType)]
  /\ UNCHANGED <<commands, aliasOf, rlVars, histVars, mwVars, rtVars, utilVars, appVars>>

\* routeCommand decides what to do with the message that has arrived
ResolveMessage ==
  /\ answer.op = "message"
  /\ Resolve(answer.text, answer.chatType)

\* router.isCommandRegistered(command)
AskRegistered(command) ==
  /\ answer' = [op |-> "isRegistered", text |-> command, chatType |-> "none",
                result |-> Decision(IF IsCommandRegistered(commands, command)
                                      THEN "true" ELSE "false",
                                    NoCommand, NoHandler)]
  /\ UNCHANGED <<commands, aliasOf, rlVars, histVars, mwVars, rtVars, utilVars, appVars>>

\* ------------------------------------------------------------------------
\* SecurityService: the permission functions and sanitizeErrorMessage
\* ------------------------------------------------------------------------
\* the member statuses of the platform
Statuses ==
  {"creator", "administrator", "member", "restricted", "left", "kicked"}

\* what getChatMember does: it answers a status, it is missing on the context
\* or it throws; and what getMe does
MemberLookups == Statuses \cup {"missing", "throws"}
MeLookups == {"ok", "missing", "throws"}

\* the contexts of the calls: chat type "none" is a context without chat,
\* "other" a type the service does not know, chat 0 a missing chat id,
\* from 0 a context without sender
ServiceContexts ==
  { [from |-> u, chat |-> c, chatType |-> t] :
      u \in {0, 1}, c \in {0, 1}, t \in ChatTypes \cup {"none", "other"} }

\* SecurityService.getBotInfo: the bot, or null when getMe is missing or throws
GetBotInfo(me) == IF me = "ok" THEN "bot" ELSE "null"

\* getBotChatMember that takes a failed lookup for an ordinary member
GetBotChatMember_FailsOpen(chat, member) ==
  IF chat = 0 \/ member \in {"missing", "throws"} THEN "member" ELSE member

\* SecurityService.getBotChatMember: the status, or null when the chat id or
\* getChatMember is missing or getChatMember throws
GetBotChatMember(chat, member) ==
  IF chat = 0 \/ member \in {"missing", "throws"} THEN "null" ELSE member

\* the status that checkGroupPermissions and checkChannelPermissions judge
BotStatus(chat, me, member) ==
  IF GetBotInfo(me) = "null" \/ GetBotChatMember(chat, member) = "null"
    THEN "unavailable"
    ELSE GetBotChatMember(chat, member)

\* SecurityService.checkBotPermissions
CheckBotPermissions(ctx, me, member) ==
  IF ctx.chatType = "none" \/ ctx.chat = 0 THEN FALSE
  ELSE IF ctx.chatType = "private" THEN TRUE
  ELSE BotHasPermission(ctx.chatType, BotStatus(ctx.chat, me, member))

\* SecurityService.checkUserAdminPermissions(ctx, userId): its result and the
\* number of calls of getChatMember; userId 0 is an absent argument
CheckUserAdminPermissions(ctx, userId, member) ==
  LET targetUserId == IF userId # 0 THEN userId ELSE ctx.from
  IN  IF targetUserId = 0 \/ ctx.chatType = "none" \/ ctx.chat = 0
        THEN [result |-> FALSE, lookups |-> 0]
      ELSE IF ctx.chatType = "private"
        THEN [result |-> TRUE, lookups |-> 0]
      ELSE [result |-> UserIsAdmin(GetBotChatMember(ctx.chat, member)),
            lookups |-> IF member = "missing" THEN 0 ELSE 1]

\* String.prototype.includes
Includes(s, p) ==
  \E k \in 1..(Len(s) - Len(p) + 1) : SubSeq(s, k, k + Len(p) - 1) = p

\* the patterns of sanitizeErrorMessage in the order of its tests, each with
\* the fixed message it returns
SanitizePatterns ==
  << [pattern |-> <<"f", "o", "r", "b", "i", "d", "d", "e", "n">>, message |-> "forbidden"],
     [pattern |-> <<"b", "o", "t", " ", "w", "a", "s", " ", "b", "l", "o", "c", "k", "e", "d">>,
      message |-> "forbidden"],
     [pattern |-> <<"n", "o", "t", " ", "f", "o", "u", "n", "d">>, message |-> "notFound"],
     [pattern |-> <<"c", "h", "a", "t", " ", "n", "o", "t", " ", "f", "o", "u", "n", "d">>,
      message |-> "notFound"],
     [pattern |-> <<"t", "o", "o", " ", "m", "a", "n", "y", " ", "r", "e", "q", "u", "e", "s", "t", "s">>,
      message |-> "rateLimit"],
     [pattern |-> <<"r", "a", "t", "e", " ", "l", "i", "m", "i", "t">>,
      message |-> "rateLimit"],
     [pattern |-> <<"b", "a", "d", " ", "r", "e", "q", "u", "e", "s", "t">>,
      message |-> "badRequest"],
     [pattern |-> <<"u", "n", "a", "u", "t", "h", "o", "r", "i", "z", "e", "d">>,
      message |-> "config"],
     [pattern |-> <<"t", "o", "k", "e", "n">>, message |-> "config"] >>
SafeMessages ==
  {"forbidden", "notFound", "rateLimit", "badRequest", "config", "generic"}

\* the message of the first pattern, from position k on, that text includes
RECURSIVE FirstMatch(_, _, _)
FirstMatch(patterns, text, k) ==
  IF k > Len(patterns) THEN "generic"
  ELSE IF Includes(text, patterns[k].pattern) THEN patterns[k].message
  ELSE FirstMatch(patterns, text, k + 1)

\* sanitizeErrorMessage that tests for "not found" first
SanitizeErrorMessage_NotFoundFirst(message) ==
  FirstMatch(SubSeq(SanitizePatterns, 3, 4) \o SubSeq(SanitizePatterns, 1, 2)
               \o SubSeq(SanitizePatterns, 5, 9),
             ToLowerCase(message), 1)

\* SecurityService.sanitizeErrorMessage
SanitizeErrorMessage(message) ==
  FirstMatch(SanitizePatterns, ToLowerCase(message), 1)

\* the error messages that reach sanitizeErrorMessage: up to MaxPhrases
\* phrases of platform errors, each as written or in capital letters, joined
\* by ": "; every phrase is given with the class of message it stands for
MaxPhrases == 2
ErrorPhrases ==
  <<[class |-> "forbidden",
      text |-> <<"F", "o", "r", "b", "i", "d", "d", "e", "n">>],
     [class |-> "forbidden",
      text |-> <<"b", "o", "t", " ", "w", "a", "s", " ", "b", "l", "o", "c",
                "k", "e", "d", " ", "b", "y", " ", "t", "h", "e", " ", "u",
                "s", "e", "r">>],
     [class |-> "notFound",
      text |-> <<"c", "h", "a", "t", " ", "n", "o", "t", " ", "f", "o", "u",
                "n", "d">>],
     [class |-> "notFound",
      text |-> <<"N", "o", "t", " ", "F", "o", "u", "n", "d">>],
     [class |-> "rateLimit",
      text |-> <<"T", "o", "o", " ", "M", "a", "n", "y", " ", "R", "e", "q",
                "u", "e", "s", "t", "s">>],
     [class |-> "rateLimit",
      text |-> <<"r", "a", "t", "e", " ", "l", "i", "m", "i", "t">>],
     [class |-> "badRequest",
      text |-> <<"B", "a", "d", " ", "R", "e", "q", "u", "e", "s", "t">>],
     [class |-> "config",
      text |-> <<"U", "n", "a", "u", "t", "h", "o", "r", "i", "z", "e",
                "d">>],
     [class |-> "config",
      text |-> <<"i", "n", "v", "a", "l", "i", "d", " ", "t", "o", "k", "e",
                "n">>],
     [class |-> "generic",
      text |-> <<"E", "T", "I", "M", "E", "D", "O", "U", "T", " ", "1", "0",
                ".", "0", ".", "0", ".", "1">>] >>
PhraseLists ==
  UNION {[1..n -> (DOMAIN ErrorPhrases) \X BOOLEAN] : n \in 1..MaxPhrases}
RECURSIVE ErrorText(_, _)
ErrorText(parts, k) ==
  LET written == ErrorPhrases[parts[k][1]].text
      phrase == IF parts[k][2] THEN ToUpperCase(written) ELSE written
  IN  IF k = Len(parts) THEN phrase
      ELSE phrase \o <<":", " ">> \o ErrorText(parts, k + 1)
ErrorClasses(parts) == {ErrorPhrases[parts[k][1]].class : k \in DOMAIN parts}

\* the calls of the service that are made
ServiceCalls ==
  { [op |-> "checkBotPermissions", state |-> "called", ctx |-> ctx,
     me |-> me, member |-> member] :
      ctx \in ServiceContexts, me \in MeLookups, member \in MemberLookups }
  \cup
  { [op |-> "checkUserAdminPermissions", state |-> "called", ctx |-> ctx,
     userId |-> userId, member |-> member] :
      ctx \in ServiceContexts, userId \in {0, 2}, member \in MemberLookups }
  \cup
  { [op |-> "sanitizeErrorMessage", state |-> "called", parts |-> parts,
     message |-> ErrorText(parts, 1)] : parts \in PhraseLists }

\* checkBotPermissions(ctx) returns
CheckBotPermissionsCall ==
  /\ answer.op = "checkBotPermissions" /\ answer.state = "called"
  /\ answer' = [op |-> answer.op, state |-> "returned", ctx |-> answer.ctx,
                me |-> answer.me, member |-> answer.member,
                result |-> CheckBotPermissions(answer.ctx, answer.me,
                                               answer.member)]
  /\ UNCHANGED <<commands, aliasOf, rlVars, histVars, mwVars, rtVars, utilVars, appVars>>

\* checkUserAdminPermissions(ctx, userId) returns
CheckUserAdminPermissionsCall ==
  /\ answer.op = "checkUserAdminPermissions" /\ answer.state = "called"
  /\ \E r \in {CheckUserAdminPermissions(answer.ctx, answer.userId,
                                          answer.member)} :
       answer' = [op |-> answer.op, state |-> "returned", ctx |-> answer.ctx,
                  userId |-> answer.userId, member |-> answer.member,
                  result |-> r.result, lookups |-> r.lookups]
  /\ UNCHANGED <<commands, aliasOf, rlVars, histVars, mwVars, rtVars, utilVars, appVars>>

\* sanitizeErrorMessage(error, ctx) returns
SanitizeErrorMessageCall ==
  /\ answer.op = "sanitizeErrorMessage" /\ answer.state = "called"
  /\ answer' = [op |-> answer.op, state |-> "returned",
                parts |-> answer.parts, message |-> answer.message,
                result |-> SanitizeErrorMessage(answer.message)]
  /\ UNCHANGED <<commands, aliasOf, rlVars, histVars, mwVars, rtVars, utilVars, appVars>>

\* ------------------------------------------------------------------------
\* CommandRouter.createRateLimitMiddleware and RetryHandler
\* ------------------------------------------------------------------------
\* what the stage did with the last request: it called next or it replied
\* with the seconds that remain
StageOutcome(user, outcome, remaining) ==
  [user |-> user, outcome |-> outcome, remaining |-> remaining]

\* createRateLimitMiddleware(maxRequests, timeWindow): the stage with its
\* userRequests map. seen is history: per user the instant of the first
\* request let through in the running window and the requests let through
\* since
RateStage(maxRequests, timeWindow) ==
  [maxRequests |-> maxRequests, timeWindow |-> timeWindow,
   userRequests |-> EmptyMap, seen |-> EmptyMap,
   last |-> StageOutcome(0, "none", 0)]

\* no stage has been made
NoStage == RateStage(0, 0)

\* the stage that lets a request through while the count is at maxRequests
StageRequestResult_OffByOne(s, userId, t) ==
  LET ur == s.userRequests
  IN  IF userId = 0 THEN [s EXCEPT !.last = StageOutcome(0, "next", 0)]
      ELSE IF userId \notin DOMAIN ur \/ t > ur[userId].resetTime
        THEN [s EXCEPT !.userRequests =
                         MapSet(ur, userId,
                                [count |-> 1, resetTime |-> t + s.timeWindow]),
                       !.last = StageOutcome(userId, "next", 0)]
      ELSE IF ur[userId].count > s.maxRequests
        THEN [s EXCEPT !.last =
                         StageOutcome(userId, "reply",
                                      CeilSeconds(ur[userId].resetTime - t))]
      ELSE [s EXCEPT !.userRequests[userId].count = @ + 1,
                     !.last = StageOutcome(userId, "next", 0)]

\* the stage, called at time t for a request of userId (0: no sender), up to
\* its await of next or of the reply
StageRequestResult(s, userId, t) ==
  LET ur == s.userRequests
  IN  IF userId = 0 THEN [s EXCEPT !.last = StageOutcome(0, "next", 0)]
      ELSE IF userId \notin DOMAIN ur \/ t > ur[userId].resetTime
        THEN [s EXCEPT !.userRequests =
                         MapSet(ur, userId,
                                [count |-> 1, resetTime |-> t + s.timeWindow]),
                       !.last = StageOutcome(userId, "next", 0)]
      ELSE IF ur[userId].count >= s.maxRequests
        THEN [s EXCEPT !.last =
                         StageOutcome(userId, "reply",
                                      CeilSeconds(ur[userId].resetTime - t))]
      ELSE [s EXCEPT !.userRequests[userId].count = @ + 1,
                     !.last = StageOutcome(userId, "next", 0)]

\* history: the requests of a user that were let through in the window that
\* its first such request opened
SeenAfter(s, t) ==
  LET u == s.last.user
  IN  IF s.last.outcome # "next" \/ u = 0 THEN s.seen
      ELSE IF u \notin DOMAIN s.seen \/ t > s.seen[u].start + s.timeWindow
        THEN MapSet(s.seen, u, [start |-> t, n |-> 1])
      ELSE MapSet(s.seen, u, [s.seen[u] EXCEPT !.n = @ + 1])

\* a request reaches the stage
StageRequest(userId) ==
  /\ \E s \in {StageRequestResult(rateStage, userId, now)} :
       rateStage' = [s EXCEPT !.seen = SeenAfter(s, now)]
  /\ UNCHANGED <<rlVars, histVars, mwVars, routerVars, retry, appVars>>

\* an argument that is a number and was not given
AbsentNumber == [given |-> FALSE, value |-> 0]

\* a RetryHandler(maxRetries) that is not working on a call. calls counts the
\* invocations of the operation, sleeps the backoff delays; retries is the
\* argument of retrySimple; returned is the invocation whose result the call
\* returned (0: none)
IdleRetry(maxRetries) ==
  [pc |-> "idle", method |-> "none", maxRetries |-> maxRetries,
   retries |-> AbsentNumber, attempt |-> 0, calls |-> 0, sleeps |-> 0,
   lastError |-> "Unknown error", failures |-> << >>, returned |-> 0]

\* the last value of attempt for which the loop of the method runs its body
LastAttempt(r) ==
  IF r.method = "retrySimple" /\ r.retries.given THEN r.retries.value
  ELSE r.maxRetries

\* the head of the for loop: the operation is invoked, or the loop is left
\* and the last error thrown
LoopHead(r) ==
  IF r.attempt <= LastAttempt(r)
    THEN [r EXCEPT !.pc = "calling", !.calls = @ + 1]
    ELSE [r EXCEPT !.pc = "rejected"]

\* the retry loop that does not stop at the last attempt
AfterFailure_NoLastAttempt(r, error) ==
  LET f == [r EXCEPT !.lastError = error, !.failures = Append(@, error)]
  IN  IF error # "retryable" THEN [f EXCEPT !.pc = "rejected"]
      ELSE IF f.method = "retryWithBackoff"
        THEN [f EXCEPT !.pc = "sleeping", !.sleeps = @ + 1]
      ELSE [f EXCEPT !.pc = "calling", !.attempt = @ + 1, !.calls = @ + 1]

\* the retry loop that takes every error for a retryable one
AfterFailure_RetriesAll(r, error) ==
  LET f == [r EXCEPT !.lastError = error, !.failures = Append(@, error)]
  IN  IF f.attempt = LastAttempt(f) THEN [f EXCEPT !.pc = "rejected"]
      ELSE IF f.method = "retryWithBackoff"
        THEN [f EXCEPT !.pc = "sleeping", !.sleeps = @ + 1]
      ELSE LoopHead([f EXCEPT !.attempt = @ + 1])

\* the catch of the loop: the last attempt and an error that is not retryable
\* end the loop; retryWithBackoff sleeps before the next attempt
AfterFailure(r, error) ==
  LET f == [r EXCEPT !.lastError = error, !.failures = Append(@, error)]
  IN  IF f.attempt = LastAttempt(f) \/ error # "retryable"
        THEN [f EXCEPT !.pc = "rejected"]
      ELSE IF f.method = "retryWithBackoff"
        THEN [f EXCEPT !.pc = "sleeping", !.sleeps = @ + 1]
      ELSE LoopHead([f EXCEPT !.attempt = @ + 1])

\* retryWithBackoff(func) or retrySimple(func, retries) is called
RetryStart(method, retries) ==
  /\ retry.pc \in {"idle", "resolved", "rejected"}
  /\ method = "retryWithBackoff" => ~retries.given
  /\ retry' = LoopHead([IdleRetry(retry.maxRetries) EXCEPT
                          !.method = method, !.retries = retries])
  /\ UNCHANGED <<rlVars, histVars, mwVars, routerVars, rateStage,
                 appVars>>

\* the operation resolved, or it threw an error that isRetryableError accepts
\* ("retryable") or refuses ("fatal")
AttemptDone(outcome) ==
  /\ retry.pc = "calling"
  /\ retry' = IF outcome = "ok"
                THEN [retry EXCEPT !.pc = "resolved", !.returned = retry.calls]
              ELSE AfterFailure(retry, outcome)
  /\ UNCHANGED <<rlVars, histVars, mwVars, routerVars, rateStage,
                 appVars>>

\* the backoff delay has passed
SleepDone ==
  /\ retry.pc = "sleeping"
  /\ retry' = LoopHead([retry EXCEPT !.attempt = @ + 1])
  /\ UNCHANGED <<rlVars, histVars, mwVars, routerVars, rateStage,
                 appVars>>

\* ------------------------------------------------------------------------
\* TelegramBot and the shutdown handler of the application
\* ------------------------------------------------------------------------
\* the transport is launched up to MaxCycles times; the shutdown handler
\* calls process.exit and bot.stop up to MaxTriggers times
MaxCycles == 2
MaxTriggers == 4

\* a TelegramBot as constructed. launches and stops count the calls of the
\* transport's launch() and stop(); last is the outcome of the last call of
\* start or stop that ended
NewBot ==
  [isRunning |-> FALSE, pc |-> "idle", launches |-> 0, stops |-> 0,
   last |-> "none"]

\* the process with the handlers of setupGracefulShutdown registered. fired
\* holds the signals whose once-handler has run, exits the codes process.exit
\* was called with, stopCalls the calls of bot.stop by the handler
NewProc ==
  [isShuttingDown |-> FALSE, pc |-> "idle", timer |-> FALSE,
   exitCode |-> 0, stopFailed |-> FALSE, stopCalls |-> 0, fired |-> {},
   exits |-> << >>, during |-> FALSE]

AppInit == bot = NewBot /\ proc = NewProc

\* TelegramBot.start is called: it awaits telegram.getMe()
BotStart ==
  /\ bot.pc = "idle"
  /\ bot.launches < MaxCycles
  /\ bot' = [bot EXCEPT !.pc = "getMe"]
  /\ UNCHANGED <<rlVars, histVars, mwVars, routerVars, utilVars, proc>>

\* getMe settles: start calls the transport's launch() and awaits it, or
\* start fails
GetMeDone(ok) ==
  /\ bot.pc = "getMe"
  /\ bot' = IF ok THEN [bot EXCEPT !.pc = "launch", !.launches = @ + 1]
            ELSE [bot EXCEPT !.pc = "idle", !.last = "startFailed"]
  /\ UNCHANGED <<rlVars, histVars, mwVars, routerVars, utilVars, proc>>

\* launch settles: isRunning is set, or start fails
LaunchDone(ok) ==
  /\ bot.pc = "launch"
  /\ bot' = IF ok THEN [bot EXCEPT !.pc = "idle", !.isRunning = TRUE,
                                   !.last = "started"]
            ELSE [bot EXCEPT !.pc = "idle", !.last = "startFailed"]
  /\ UNCHANGED <<rlVars, histVars, mwVars, routerVars, utilVars, proc>>

\* stop that stops the transport of a bot that is not running
StopBot_AlwaysStops(ok) ==
  /\ StopLimiter
  /\ bot' = IF ok THEN [bot EXCEPT !.stops = @ + 1, !.isRunning = FALSE,
                                   !.last = "stopped"]
            ELSE [bot EXCEPT !.stops = @ + 1, !.last = "stopFailed"]

\* the body of TelegramBot.stop; ok: the transport's stop() does not throw
StopBot(ok) ==
  IF ~bot.isRunning
    THEN /\ bot' = [bot EXCEPT !.last = "stopNoop"]
         /\ UNCHANGED <<rlVars, histVars>>
    ELSE /\ StopLimiter
         /\ bot' = IF ok THEN [bot EXCEPT !.stops = @ + 1,
                                          !.isRunning = FALSE,
                                          !.last = "stopped"]
                   ELSE [bot EXCEPT !.stops = @ + 1, !.last = "stopFailed"]

\* TelegramBot.stop is called
BotStop(ok) ==
  /\ bot.stops <= MaxCycles
  /\ StopBot(ok)
  /\ UNCHANGED <<mwVars, routerVars, utilVars, proc>>

\* the signals the handlers are registered for; SIGINT and SIGTERM with once
Signals ==
  {"SIGINT", "SIGTERM", "UNCAUGHT_EXCEPTION", "UNHANDLED_REJECTION"}
OnceSignals == {"SIGINT", "SIGTERM"}
ExitCodeOf(signal) == IF signal \in OnceSignals THEN 0 ELSE 1

\* process.exit(code) is called
Exit(p, code) == [p EXCEPT !.exits = Append(@, code)]

\* gracefulShutdown without its isShuttingDown test
ShutdownTrigger_NoGuard(signal, ok) ==
  /\ Len(proc.exits) + proc.stopCalls < MaxTriggers
  /\ signal \notin proc.fired
  /\ \E p \in {[proc EXCEPT !.fired = @ \cup ({signal} \cap OnceSignals),
                             !.during = proc.pc = "awaitStop"]} :
       IF bot.isRunning
         THEN /\ StopBot(ok)
              /\ proc' = [p EXCEPT !.isShuttingDown = TRUE, !.timer = TRUE,
                                   !.pc = "awaitStop",
                                   !.exitCode = ExitCodeOf(signal),
                                   !.stopFailed = ~ok,
                                   !.stopCalls = @ + 1]
         ELSE /\ proc' = Exit([p EXCEPT !.isShuttingDown = TRUE,
                                        !.pc = "done"],
                              ExitCodeOf(signal))
              /\ UNCHANGED <<rlVars, histVars, bot>>
  /\ UNCHANGED <<mwVars, routerVars, utilVars>>

\* a signal or an error event runs gracefulShutdown up to its await of
\* bot.stop(); during records that the trigger came while a shutdown was
\* awaiting bot.stop
ShutdownTrigger(signal, ok) ==
  /\ Len(proc.exits) + proc.stopCalls < MaxTriggers
  /\ signal \notin proc.fired
  /\ \E p \in {[proc EXCEPT !.fired = @ \cup ({signal} \cap OnceSignals),
                             !.during = proc.pc = "awaitStop"]} :
       IF proc.isShuttingDown
         THEN /\ proc' = Exit(p, 1)
              /\ UNCHANGED <<rlVars, histVars, bot>>
       ELSE IF bot.isRunning
         THEN /\ StopBot(ok)
              /\ proc' = [p EXCEPT !.isShuttingDown = TRUE, !.timer = TRUE,
                                   !.pc = "awaitStop",
                                   !.exitCode = ExitCodeOf(signal),
                                   !.stopFailed = ~ok,
                                   !.stopCalls = @ + 1]
         ELSE /\ proc' = Exit([p EXCEPT !.isShuttingDown = TRUE,
                                        !.pc = "done"],
                              ExitCodeOf(signal))
              /\ UNCHANGED <<rlVars, histVars, bot>>
  /\ UNCHANGED <<mwVars, routerVars, utilVars>>

\* bot.stop() settles: the shutdown clears its timer and exits with the code
\* of the trigger, or its catch exits with 1
ShutdownResume ==
  /\ proc.pc = "awaitStop"
  /\ proc' = IF proc.stopFailed
               THEN Exit([proc EXCEPT !.pc = "done", !.during = FALSE], 1)
               ELSE Exit([proc EXCEPT !.pc = "done", !.timer = FALSE,
                                     !.during = FALSE],
                         proc.exitCode)
  /\ UNCHANGED <<rlVars, histVars, mwVars, routerVars, utilVars, bot>>

\* the shutdown timer fires
ShutdownTimeout ==
  /\ proc.timer
  /\ proc' = Exit([proc EXCEPT !.timer = FALSE, !.during = FALSE], 1)
  /\ UNCHANGED <<rlVars, histVars, mwVars, routerVars, utilVars, bot>>

\* no stage and no retry handler are in use, bot and process as constructed
UtilInit == rateStage = NoStage /\ retry = IdleRetry(0) /\ AppInit

\* a route invocation that has not started. replies counts the replies that
\* routeCommand and handleUnknownCommand send themselves, handleErrors the
\* calls of errorHandler.handleError in the catch of routeCommand, thrown
\* tells whether the handler or a stage after the security stage threw,
\* replyTypes are the chat types that the reply of handleInvalidContext names,
\* again tells whether the stage that awaits next will call next once more
IdleRoute ==
  [pc |-> "idle", text |-> << >>, chatType |-> "none", decision |-> "none",
   requester |-> "none", handler |-> NoHandler, index |-> 0,
   stagesRun |-> << >>,
   handlerCalls |-> 0, replies |-> 0, replyTypes |-> {},
   replyFailed |-> FALSE, handleErrors |-> 0, thrown |-> FALSE,
   again |-> FALSE]

\* the router after construction: the default commands, the default security
\* stage, no invocation in flight
RouterInit(chains) ==
  /\ RegistryInit
  /\ middlewares \in chains
  /\ route = [i \in Invocations |-> IdleRoute]
  /\ UtilInit

\* ------------------------------------------------------------------------
\* CommandRouter.routeCommand and the middleware chain
\* ------------------------------------------------------------------------
\* what a stage added with addMiddleware does when it is called: it awaits
\* next, returns without calling next, or throws
Behaviours == {"pass", "block", "throw"}

\* the texts and the contexts of the updates that are routed
RoutedTexts ==
  { <<"h">>, CommandText(<<"f", "o", "o">>, << >>, << >>),
    CommandText(Name_x, << >>, << >>), CommandText(Name_ban, << >>, << >>) }

\* the sender is an ordinary member of the chat
RoutedContexts ==
  { [from |-> 1, chat |-> 1, chatType |-> t, status |-> "member"] :
      t \in {"private", "group"} }

\* the chains of a router: the constructor installs the security stage, and
\* addMiddleware appends the logging stage or a stage of the caller
Chains ==
  { <<"security">>, <<"security", "logging">>, <<"security", "custom">> }

\* routeCommand(ctx) up to its first await
RouteCommand(i, ctx, text) ==
  /\ route[i].pc \in {"idle", "done"}
  /\ \E d \in {Decide(commands, text, ctx.chatType)} :
      LET r == [IdleRoute EXCEPT !.text = text, !.chatType = ctx.chatType,
                                 !.requester = ctx.status,
                                 !.decision = d.outcome, !.handler = d.handler]
      IN
      /\ route' = [route EXCEPT ![i] =
            CASE d.outcome = "ignored" -> [r EXCEPT !.pc = "done"]
              [] d.outcome = "unknown" ->
                   [r EXCEPT !.pc = "unknownReply", !.replies = 1]
              [] d.outcome = "invalidContext" ->
                   [r EXCEPT !.pc = "contextReply", !.replies = 1,
                             !.replyTypes =
                               commands[d.key].allowedChatTypes.value]
              [] d.outcome = "execute" ->
                   [r EXCEPT !.pc = "chain", !.index = 1,
                             !.stagesRun = <<middlewares[1]>>]]
      /\ inv' = [inv EXCEPT ![i] =
            IF d.outcome = "execute" THEN NewInvocation(ctx, StepFrom(1))
            ELSE NewInvocation(NoContext, "idle")]
      /\ UNCHANGED <<rlVars, histVars, mwConfig, regVars, middlewares, utilVars, appVars>>

\* the reply of HelpCommandHandler.handleUnknownCommand resolved, or was
\* rejected: the handler's own catch reports the error with another reply
UnknownReplyDone(i, ok) ==
  /\ route[i].pc = "unknownReply"
  /\ route' = [route EXCEPT ![i] =
                 IF ok THEN [@ EXCEPT !.pc = "done"]
                 ELSE [@ EXCEPT !.pc = "unknownError", !.replyFailed = TRUE]]
  /\ UNCHANGED <<rlVars, histVars, mwVars, regVars, middlewares, utilVars, appVars>>

\* the error reply of handleUnknownCommand resolved or was rejected and caught
UnknownErrorDone(i) ==
  /\ route[i].pc = "unknownError"
  /\ route' = [route EXCEPT ![i].pc = "done"]
  /\ UNCHANGED <<rlVars, histVars, mwVars, regVars, middlewares, utilVars, appVars>>

\* the reply of handleInvalidContext resolved, or was rejected: the exception
\* reaches the catch of routeCommand, which calls errorHandler.handleError
ContextReplyDone(i, ok) ==
  /\ route[i].pc = "contextReply"
  /\ route' = [route EXCEPT ![i] =
                 IF ok THEN [@ EXCEPT !.pc = "done"]
                 ELSE [@ EXCEPT !.pc = "handleError", !.replyFailed = TRUE,
                                !.handleErrors = @ + 1]]
  /\ UNCHANGED <<rlVars, histVars, mwVars, regVars, middlewares, utilVars, appVars>>

\* handleError that lets the failure of its reply escape
HandleErrorDone_Rethrows(i, ok) ==
  /\ route[i].pc = "handleError"
  /\ route' = [route EXCEPT ![i].pc = IF ok THEN "done" ELSE "rejected"]
  /\ UNCHANGED <<rlVars, histVars, mwVars, regVars, middlewares, utilVars, appVars>>

\* ErrorHandler.handleError: the reply of sendErrorMessage resolved or was
\* rejected and caught; routeCommand returns
HandleErrorDone(i, ok) ==
  /\ route[i].pc = "handleError"
  /\ route' = [route EXCEPT ![i].pc = "done"]
  /\ UNCHANGED <<rlVars, histVars, mwVars, regVars, middlewares, utilVars, appVars>>

\* next() of executeWithMiddleware, called by the security stage, with stages
\* left: the stage at middlewareIndex runs. The logging stage awaits next and
\* rethrows what next raises
StageRun(i, behaviour) ==
  LET stage == middlewares[route[i].index + 1]
  IN  /\ route[i].pc = "chain" /\ inv[i].pc = "next"
      /\ route[i].index < Len(middlewares)
      /\ stage = "logging" => behaviour = "pass"
      /\ route' = [route EXCEPT ![i] =
                     [@ EXCEPT !.index = @ + 1,
                               !.stagesRun = Append(@, stage),
                               !.thrown = behaviour = "throw"]]
      /\ inv' = [inv EXCEPT ![i] =
                   IF behaviour = "pass" THEN @
                   ELSE NextResult(@, behaviour = "block")]
      /\ UNCHANGED <<rlVars, histVars, mwConfig, regVars, middlewares, utilVars, appVars>>

\* a stage of the caller that calls next, awaits it, and calls next a second
\* time: its first call runs the rest of the chain
StageRunTwice(i) ==
  /\ route[i].pc = "chain" /\ inv[i].pc = "next"
  /\ route[i].index < Len(middlewares)
  /\ middlewares[route[i].index + 1] = "custom"
  /\ ~route[i].again
  /\ route' = [route EXCEPT ![i] =
                 [@ EXCEPT !.index = @ + 1,
                           !.stagesRun = Append(@, "custom"),
                           !.again = TRUE]]
  /\ UNCHANGED <<rlVars, histVars, mwVars, regVars, middlewares, utilVars,
                 appVars>>

\* the first next() of that stage resolved and the stage calls next again:
\* middlewareIndex is the one the first call left behind, so the next stage
\* that is left runs, or with no stage left the handler is called
NextAgain(i) ==
  /\ route[i].pc = "handler" /\ route[i].again
  /\ route' = [route EXCEPT ![i] =
                 IF @.index < Len(middlewares)
                   THEN [@ EXCEPT !.index = @ + 1,
                                  !.stagesRun =
                                    Append(@, middlewares[route[i].index + 1]),
                                  !.pc = "chain", !.again = FALSE]
                   ELSE [@ EXCEPT !.handlerCalls = @ + 1, !.again = FALSE]]
  /\ UNCHANGED <<rlVars, histVars, mwVars, regVars, middlewares, utilVars,
                 appVars>>

\* next() that calls the handler while stages are left
HandlerCall_SkipsStages(i) ==
  /\ route[i].pc = "chain" /\ inv[i].pc = "next"
  /\ route' = [route EXCEPT ![i] =
                 [@ EXCEPT !.pc = "handler", !.handlerCalls = @ + 1]]
  /\ UNCHANGED <<rlVars, histVars, mwVars, regVars, middlewares, utilVars, appVars>>

\* next() with no stage left: the handler of the registration is called
HandlerCall(i) ==
  /\ route[i].pc = "chain" /\ inv[i].pc = "next"
  /\ route[i].index = Len(middlewares)
  /\ route' = [route EXCEPT ![i] =
                 [@ EXCEPT !.pc = "handler", !.handlerCalls = @ + 1]]
  /\ UNCHANGED <<rlVars, histVars, mwVars, regVars, middlewares, utilVars, appVars>>

\* a chain whose first stage does not catch what next() raises: the
\* exception of the handler reaches the catch of routeCommand
HandlerDone_Uncaught(i, ok) ==
  /\ route[i].pc = "handler"
  /\ route' = [route EXCEPT ![i] =
                 IF ok THEN [@ EXCEPT !.pc = "chain"]
                 ELSE [@ EXCEPT !.pc = "handleError", !.thrown = TRUE,
                                !.handleErrors = @ + 1]]
  /\ inv' = [inv EXCEPT ![i] = NextResult(@, TRUE)]
  /\ UNCHANGED <<rlVars, histVars, mwConfig, regVars, middlewares, utilVars, appVars>>

\* the handler resolved or threw: so does the next() that the security stage
\* awaits
HandlerDone(i, ok) ==
  /\ route[i].pc = "handler"
  /\ route' = [route EXCEPT ![i] = [@ EXCEPT !.pc = "chain", !.thrown = ~ok]]
  /\ inv' = [inv EXCEPT ![i] = NextResult(@, ok)]
  /\ UNCHANGED <<rlVars, histVars, mwConfig, regVars, middlewares, utilVars, appVars>>

\* the security stage returned: executeWithMiddleware and routeCommand return
RouteReturn(i) ==
  /\ route[i].pc = "chain" /\ inv[i].pc = "done"
  /\ route' = [route EXCEPT ![i].pc = "done"]
  /\ UNCHANGED <<rlVars, histVars, mwVars, regVars, middlewares, utilVars, appVars>>

\* several users and chats under the short configurations
Init == RLInit(Configs) /\ MWInit({DefaultConfig})
  /\ RouterInit({<<"security">>})
Next ==
  \/ \E u \in Users, c \in ChatArgs : DoCheckRateLimit(u, c)
  \/ \E u \in Users : ClearUserLimit(u)
  \/ \E c \in Chats : ClearChatLimit(c)
  \/ Cleanup
  \/ Stop
  \/ Tick(MaxTicks)

Spec == Init /\ [][Next]_vars

\* one user under every configuration
InitOne == RLInit(ConfigsOne) /\ MWInit({DefaultConfig})
  /\ RouterInit({<<"security">>})
NextOne ==
  \/ \E c \in ChatArgs : DoCheckRateLimit(1, c)
  \/ ClearUserLimit(1)
  \/ \E c \in Chats : ClearChatLimit(c)
  \/ Cleanup
  \/ Stop
  \/ Tick(MaxTicks)

SpecOne == InitOne /\ [][NextOne]_vars

\* one user, no chat, a long window
InitLong == RLInit(ConfigsLong) /\ MWInit({DefaultConfig})
  /\ RouterInit({<<"security">>})
NextLong ==
  \/ DoCheckRateLimit(1, 0)
  \/ ClearUserLimit(1)
  \/ Stop
  \/ Tick(LongTicks)

SpecLong == InitLong /\ [][NextLong]_vars

\* the security stage under every setting of its switches
InitMW ==
  /\ RLInit({Cfg(1, 1, TRUE)}) /\ MWInit(MWConfigs)
  /\ RouterInit({<<"security">>})
NextMW ==
  \/ \E i \in Invocations, ctx \in Contexts : Invoke(i, ctx)
  \/ \E i \in Invocations : RateLimitStep(i)
  \/ \E i \in Invocations, throws \in BOOLEAN : ChatTypeStep(i, throws)
  \/ \E i \in Invocations : BotPermissionStep(i)
  \/ \E i \in Invocations, s \in LookupResults : BotLookupDone(i, s)
  \/ \E i \in Invocations : AdminStep(i)
  \/ \E i \in Invocations, s \in LookupResults : AdminLookupDone(i, s)
  \/ \E i \in Invocations, ok \in BOOLEAN : ReplyDone(i, ok)
  \/ \E i \in Invocations : AllowStep(i)
  \/ \E i \in Invocations, ok \in BOOLEAN : NextDone(i, ok)
  \/ \E i \in Invocations, ok \in BOOLEAN : ErrorReplyDone(i, ok)
  \/ Stop

SpecMW == InitMW /\ [][NextMW]_vars

\* the stage with every step switched on, under concurrent invocations for
\* one user and senderless updates in one chat, while time passes and an
\* administrator clears the user
ConcTicks == 1
ConcConfig == MWConfig(TRUE, TRUE, TRUE, TRUE, FALSE, ChatTypes \ {"channel"})
ConcContexts ==
  { [from |-> u, chat |-> 1, chatType |-> t] :
      u \in {0, 1}, t \in {"group", "channel"} }
InitConc ==
  /\ RLInit({Cfg(1, 1, TRUE)}) /\ MWInit({ConcConfig})
  /\ RouterInit({<<"security">>})
NextConc ==
  \/ \E i \in Invocations, ctx \in ConcContexts : Invoke(i, ctx)
  \/ \E i \in Invocations : RateLimitStep(i)
  \/ \E i \in Invocations : ChatTypeStep(i, FALSE)
  \/ \E i \in Invocations : BotPermissionStep(i)
  \/ \E i \in Invocations, s \in {"member", "kicked"} : BotLookupDone(i, s)
  \/ \E i \in Invocations : AdminStep(i)
  \/ \E i \in Invocations, s \in {"administrator", "member"} :
       AdminLookupDone(i, s)
  \/ \E i \in Invocations : ReplyDone(i, TRUE)
  \/ \E i \in Invocations : AllowStep(i)
  \/ \E i \in Invocations, ok \in BOOLEAN : NextDone(i, ok)
  \/ \E i \in Invocations : ErrorReplyDone(i, TRUE)
  \/ ClearUserLimit(1)
  \/ Tick(ConcTicks)

SpecConc == InitConc /\ [][NextConc]_vars

\* a router whose caller has added a stage that may call next twice
InitChain ==
  /\ RLInit({Cfg(1, 1, TRUE)}) /\ MWInit({DefaultConfig})
  /\ RouterInit({<<"security", "custom">>})
NextChain ==
  \/ \E i \in Invocations, ctx \in RoutedContexts :
       RouteCommand(i, ctx, CommandText(Name_help, << >>, << >>))
  \/ \E i \in Invocations : RateLimitStep(i)
  \/ \E i \in Invocations : ChatTypeStep(i, FALSE)
  \/ \E i \in Invocations : BotPermissionStep(i)
  \/ \E i \in Invocations, s \in {"member", "kicked"} : BotLookupDone(i, s)
  \/ \E i \in Invocations, ok \in BOOLEAN : ReplyDone(i, ok)
  \/ \E i \in Invocations : AllowStep(i)
  \/ \E i \in Invocations, b \in Behaviours : StageRun(i, b)
  \/ \E i \in Invocations : StageRunTwice(i)
  \/ \E i \in Invocations : HandlerCall(i)
  \/ \E i \in Invocations : NextAgain(i)
  \/ \E i \in Invocations, ok \in BOOLEAN :
       (ok => ~route[i].again) /\ HandlerDone(i, ok)
  \/ \E i \in Invocations, ok \in BOOLEAN : ErrorReplyDone(i, ok)
  \/ \E i \in Invocations : RouteReturn(i)
  \/ Tick(MaxTicks)

SpecChain == InitChain /\ [][NextChain]_vars

\* the limiter with a sweep that can run between any two calls; clearing
\* users lets a chat reach its limit
SweepTicks == 3
InitSweep == Init
NextSweep ==
  \/ \E u \in Users, c \in ChatArgs : DoCheckRateLimit(u, c)
  \/ \E u \in Users : ClearUserLimit(u)
  \/ CleanupAnyTime
  \/ Tick(SweepTicks)

SpecSweep == InitSweep /\ [][NextSweep]_vars

\* the registry under registrations, look-ups and the resolution of texts
InitReg ==
  /\ RLInit({Cfg(1, 1, TRUE)}) /\ MWInit({DefaultConfig})
  /\ RouterInit({<<"security">>})
NextReg ==
  \/ \E registration \in CallerRegistrations : RegisterCommand(registration)
  \/ \E text \in RouteTexts, chatType \in ChatTypes \cup {"none"} :
       Resolve(text, chatType)
  \/ \E command \in AskedNames : AskRegistered(command)

SpecReg == InitReg /\ [][NextReg]_vars

\* the resolution of a message: a message of any text has arrived at a
\* router with the default commands and at most one registration more
InitResolve ==
  /\ RLInit({Cfg(1, 1, TRUE)}) /\ MWInit({DefaultConfig})
  /\ \E more \in {<< >>} \cup {<<r>> : r \in CallerRegistrations} :
       /\ more # << >> => ~RegistrationInvalid(more[1])
       /\ commands = RegisterAll(EmptyMap, DefaultRegistrations \o more, 1)
       /\ aliasOf = NameAll(EmptyMap, DefaultRegistrations \o more, 1)
  /\ answer \in {[NoAnswer EXCEPT !.op = "message", !.text = text,
                                  !.chatType = chatType] :
                   text \in Texts, chatType \in ChatTypes \cup {"none"}}
  /\ middlewares = <<"security">>
  /\ route = [i \in Invocations |-> IdleRoute]
  /\ UtilInit
NextResolve == ResolveMessage

SpecResolve == InitResolve /\ [][NextResolve]_vars

\* the router with its chain: the default commands and a command for private
\* chats, the security stage as the constructor configures it
InitRT ==
  /\ RLInit({Cfg(2, 1, TRUE)}) /\ MWInit({DefaultConfig})
  /\ commands = RegisterAll(EmptyMap, DefaultRegistrations \o <<PrivateOnly, AdminOnly>>,
                1)
  /\ aliasOf = NameAll(EmptyMap, DefaultRegistrations \o <<PrivateOnly, AdminOnly>>,
                1)
  /\ answer = NoAnswer
  /\ middlewares \in Chains
  /\ route = [i \in Invocations |-> IdleRoute]
  /\ UtilInit
NextRT ==
  \/ \E i \in Invocations, ctx \in RoutedContexts, text \in RoutedTexts :
       RouteCommand(i, ctx, text)
  \/ \E i \in Invocations, ok \in BOOLEAN : UnknownReplyDone(i, ok)
  \/ \E i \in Invocations : UnknownErrorDone(i)
  \/ \E i \in Invocations, ok \in BOOLEAN : ContextReplyDone(i, ok)
  \/ \E i \in Invocations, ok \in BOOLEAN : HandleErrorDone(i, ok)
  \/ \E i \in Invocations : RateLimitStep(i)
  \/ \E i \in Invocations, throws \in BOOLEAN : ChatTypeStep(i, throws)
  \/ \E i \in Invocations : BotPermissionStep(i)
  \/ \E i \in Invocations, s \in LookupResults : BotLookupDone(i, s)
  \/ \E i \in Invocations, ok \in BOOLEAN : ReplyDone(i, ok)
  \/ \E i \in Invocations : AllowStep(i)
  \/ \E i \in Invocations, b \in Behaviours : StageRun(i, b)
  \/ \E i \in Invocations : HandlerCall(i)
  \/ \E i \in Invocations, ok \in BOOLEAN : HandlerDone(i, ok)
  \/ \E i \in Invocations, ok \in BOOLEAN : ErrorReplyDone(i, ok)
  \/ \E i \in Invocations : RouteReturn(i)

SpecRT == InitRT /\ [][NextRT]_vars

\* the stage of createRateLimitMiddleware under every limit up to MaxN
StageTicks == 4
InitStage ==
  /\ RLInit({Cfg(1, 1, TRUE)}) /\ MWInit({DefaultConfig})
  /\ RegistryInit
  /\ middlewares = <<"security", "rateLimit">>
  /\ route = [i \in Invocations |-> IdleRoute]
  /\ rateStage \in {RateStage(n, Window * Quantum) : n \in 1..MaxN}
  /\ retry = IdleRetry(0)
  /\ AppInit
NextStage ==
  \/ \E userId \in Users \cup {0} : StageRequest(userId)
  \/ Tick(StageTicks)

SpecStage == InitStage /\ [][NextStage]_vars

\* a RetryHandler with up to MaxRetries retries
MaxRetries == 2

\* a TelegramBot, its limiter serving one user
InitBot ==
  /\ RLInit({Cfg(1, 1, TRUE)}) /\ MWInit({DefaultConfig})
  /\ RouterInit({<<"security", "logging">>})
NextBot ==
  \/ BotStart
  \/ \E ok \in BOOLEAN : GetMeDone(ok)
  \/ \E ok \in BOOLEAN : LaunchDone(ok)
  \/ \E ok \in BOOLEAN : BotStop(ok)
  \/ DoCheckRateLimit(1, 0)
  \/ Tick(MaxTicks)
  \/ Cleanup

SpecBot == InitBot /\ [][NextBot]_vars

\* the application: the bot and the shutdown handler
NextApp ==
  \/ BotStart
  \/ \E ok \in BOOLEAN : GetMeDone(ok)
  \/ \E ok \in BOOLEAN : LaunchDone(ok)
  \/ \E signal \in Signals, ok \in BOOLEAN : ShutdownTrigger(signal, ok)
  \/ ShutdownResume
  \/ ShutdownTimeout

SpecApp == InitBot /\ [][NextApp]_vars
InitRetry ==
  /\ RLInit({Cfg(1, 1, TRUE)}) /\ MWInit({DefaultConfig})
  /\ RegistryInit
  /\ middlewares = <<"security">>
  /\ route = [i \in Invocations |-> IdleRoute]
  /\ rateStage = NoStage
  /\ retry \in {IdleRetry(n) : n \in 0..MaxRetries}
  /\ AppInit
NextRetry ==
  \/ \E method \in {"retryWithBackoff", "retrySimple"},
        retries \in {AbsentNumber}
                      \cup {Given(n) : n \in 0..(MaxRetries + 1)} :
       RetryStart(method, retries)
  \/ \E outcome \in {"ok", "retryable", "fatal"} : AttemptDone(outcome)
  \/ SleepDone

SpecRetry == InitRetry /\ [][NextRetry]_vars

\* every invocation of the operation settles and every delay passes
SpecRetryFair ==
  SpecRetry /\ WF_vars(\E outcome \in {"ok", "retryable", "fatal"} :
                         AttemptDone(outcome))
            /\ WF_vars(SleepDone)

\* the service: one call of one of its functions has been made
InitService ==
  /\ RLInit({Cfg(1, 1, TRUE)}) /\ MWInit({DefaultConfig})
  /\ commands = RegisterAll(EmptyMap, DefaultRegistrations, 1)
  /\ aliasOf = NameAll(EmptyMap, DefaultRegistrations, 1)
  /\ answer \in ServiceCalls
  /\ middlewares = <<"security">>
  /\ route = [i \in Invocations |-> IdleRoute]
  /\ UtilInit
NextService ==
  \/ CheckBotPermissionsCall
  \/ CheckUserAdminPermissionsCall
  \/ SanitizeErrorMessageCall

SpecService == InitService /\ [][NextService]_vars

\* every await of an invocation settles: the platform answers, the stages and
\* the handler return or throw
StepOf(i) ==
  \/ \E ok \in BOOLEAN : UnknownReplyDone(i, ok)
  \/ UnknownErrorDone(i)
  \/ \E ok \in BOOLEAN : ContextReplyDone(i, ok)
  \/ \E ok \in BOOLEAN : HandleErrorDone(i, ok)
  \/ RateLimitStep(i)
  \/ \E throws \in BOOLEAN : ChatTypeStep(i, throws)
  \/ BotPermissionStep(i)
  \/ \E s \in LookupResults : BotLookupDone(i, s)
  \/ \E ok \in BOOLEAN : ReplyDone(i, ok)
  \/ AllowStep(i)
  \/ \E b \in Behaviours : StageRun(i, b)
  \/ HandlerCall(i)
  \/ \E ok \in BOOLEAN : HandlerDone(i, ok)
  \/ \E ok \in BOOLEAN : ErrorReplyDone(i, ok)
  \/ RouteReturn(i)

SpecRTFair == SpecRT /\ \A i \in Invocations : WF_vars(StepOf(i))

\* ------------------------------------------------------------------------
\* Vocabulary of the claims
\* ------------------------------------------------------------------------
\* the step is a call checkRateLimit(u, .) / the call's chat and result
CallBy(u) == last'.op = "check" /\ last'.user = u
Admitted(r) == ~r.isLimited
Rejected(r, why) == r.isLimited /\ r.reason = why

ActivePenalty(u) ==
  /\ u \in DOMAIN userLimits
  /\ userLimits[u].penaltyExpires # 0
  /\ now < userLimits[u].penaltyExpires
UserAtLimit(u) ==
  /\ u \in DOMAIN userLimits
  /\ now < userLimits[u].resetTime
  /\ userLimits[u].count >= globalConfig.maxRequests
ChatAtLimit(c) ==
  /\ c \in DOMAIN chatLimits
  /\ now < chatLimits[c].resetTime
  /\ chatLimits[c].count >= 5 * globalConfig.maxRequests
\* window and penalty (if any) of a tracked user have both run out
UserExpired(u) ==
  /\ u \in DOMAIN userLimits
  /\ now >= userLimits[u].resetTime
  /\ (userLimits[u].penaltyExpires = 0 \/ now >= userLimits[u].penaltyExpires)
FreshEntry ==
  [count |-> 1, resetTime |-> now + globalConfig.timeWindow,
   penaltyExpires |-> 0, penaltyCount |-> 0]

\* ------------------------------------------------------------------------
\* C1 (as stated): from no tracked state, the first N calls of a user made
\* before the window's resetTime all return isLimited = false, and the
\* (N+1)-th call inside that window returns rate_limit.
\* ------------------------------------------------------------------------
C1_FirstNAllowed ==
  [][\A u \in Users : CallBy(u) =>
       LET w == userWin[u]
           N == globalConfig.maxRequests
       IN  /\ (w.start = 0 => Admitted(last'.res))
           /\ (InWin(w, now, globalConfig) /\ w.n < N => Admitted(last'.res))
           /\ (InWin(w, now, globalConfig) /\ w.n = N
                 => Rejected(last'.res, "rate_limit"))]_vars

\* C1 (amended): counting the calls that the chat limit does not reject, the
\* first N calls of a user in a window are admitted and the next call inside
\* that window is rejected with rate_limit; a call among the first N is
\* rejected only by the chat limit.
C1_FirstNAllowedUnlessChat ==
  [][\A u \in Users : CallBy(u) =>
       LET w == userWin[u]
           N == globalConfig.maxRequests
       IN  /\ (w.start = 0
                 => Admitted(last'.res) \/ Rejected(last'.res, "chat_limit"))
           /\ (InWin(w, now, globalConfig) /\ w.n < N
                 => Admitted(last'.res) \/ Rejected(last'.res, "chat_limit"))
           /\ (InWin(w, now, globalConfig) /\ w.n = N
                 => Rejected(last'.res, "rate_limit"))]_vars

\* the (N+1)-th call of a window, N > 1, has just been rejected
C1_Witness ==
  /\ last.op = "check"
  /\ Rejected(last.res, "rate_limit")
  /\ globalConfig.maxRequests > 1
  /\ InWin(userWin[last.user], now, globalConfig)
  /\ userWin[last.user].n = globalConfig.maxRequests + 1
  /\ userLimits[last.user].count = globalConfig.maxRequests

\* ------------------------------------------------------------------------
\* C2: after a rate_limit rejection at time t of a user without strikes,
\* every call of that user at a time in [t, t + penaltyTime) is rejected
\* with reason penalty, also after the window has run out, unless
\* clearUserLimit or stop intervened.
\* ------------------------------------------------------------------------
C2_PenaltyBlocks ==
  [][\A u \in Users :
       /\ CallBy(u)
       /\ armedAt[u] # 0
       /\ now < armedAt[u] + globalConfig.penaltyTime
       => Rejected(last'.res, "penalty")]_vars

\* a penalty rejection after the window in which the violation happened
C2_Witness ==
  /\ last.op = "check"
  /\ Rejected(last.res, "penalty")
  /\ armedAt[last.user] # 0
  /\ now < armedAt[last.user] + globalConfig.penaltyTime
  /\ userWin[last.user].start # 0
  /\ now >= userWin[last.user].start + globalConfig.timeWindow

\* ------------------------------------------------------------------------
\* C3: with progressive penalties and penaltyTime = P, the rate_limit
\* rejection that raises the strike count to k arms a penalty of duration
\* P * min(k, 5).
\* ------------------------------------------------------------------------
C3_ProgressivePenalty ==
  [][\A u \in Users :
       /\ CallBy(u)
       /\ Rejected(last'.res, "rate_limit")
       /\ globalConfig.useProgressivePenalty
       /\ globalConfig.penaltyTime # 0
       => LET k == Strikes(userLimits', u)
          IN  /\ k = Strikes(userLimits, u) + 1
              /\ userLimits'[u].penaltyExpires =
                   now + globalConfig.penaltyTime * Min(k, 5)]_vars

\* the sixth violation has armed a penalty of 5P
C3_Witness ==
  /\ last.op = "check"
  /\ Rejected(last.res, "rate_limit")
  /\ globalConfig.useProgressivePenalty
  /\ Strikes(userLimits, last.user) = 6
  /\ userLimits[last.user].penaltyExpires =
       now + 5 * globalConfig.penaltyTime

\* ------------------------------------------------------------------------
\* C4: the strike count of a user never decreases, except through
\* clearUserLimit, the cleanup sweep or stop.
\* ------------------------------------------------------------------------
C4_StrikesPersist ==
  [][\A u \in Users :
       /\ Strikes(userLimits, u) >= 1
       /\ last'.op \notin {"clearUser", "cleanup", "stop"}
       => Strikes(userLimits', u) >= Strikes(userLimits, u)]_vars

\* ------------------------------------------------------------------------
\* C5: precedence penalty > rate_limit > chat_limit: an active penalty is
\* reported whatever the counts are; without it a user at the limit gets
\* rate_limit even when the chat is at its limit; chat_limit is reported only
\* when neither user condition holds.
\* ------------------------------------------------------------------------
C5_Precedence ==
  [][\A u \in Users :
       CallBy(u) =>
         /\ (ActivePenalty(u) => Rejected(last'.res, "penalty"))
         /\ (~ActivePenalty(u) /\ UserAtLimit(u)
               => Rejected(last'.res, "rate_limit"))
         /\ (Rejected(last'.res, "chat_limit")
               => /\ ~ActivePenalty(u) /\ ~UserAtLimit(u)
                  /\ last'.chat # 0 /\ ChatAtLimit(last'.chat))
         /\ (~ActivePenalty(u) /\ ~UserAtLimit(u)
               /\ last'.chat # 0 /\ ChatAtLimit(last'.chat)
               => Rejected(last'.res, "chat_limit"))]_vars

\* a penalty was reported for a user at the limit in a chat at its limit
C5_Witness ==
  /\ last.op = "check"
  /\ Rejected(last.res, "penalty")
  /\ UserAtLimit(last.user)
  /\ last.chat # 0
  /\ ChatAtLimit(last.chat)

\* ------------------------------------------------------------------------
\* C6: clearUserLimit(id) removes the entry of id (penalty and count) and
\* leaves every other user and every chat unchanged; the next
\* checkRateLimit of id is not rejected for a user-level reason and, being
\* admitted, starts a fresh window with count 1 and no strikes.
\* ------------------------------------------------------------------------
C6_ClearUser ==
  [][\A u \in Users :
       /\ (last'.op = "clearUser" /\ last'.user = u
             => /\ u \notin DOMAIN userLimits'
                /\ DOMAIN userLimits' = (DOMAIN userLimits) \ {u}
                /\ \A v \in DOMAIN userLimits' : userLimits'[v] = userLimits[v]
                /\ chatLimits' = chatLimits)
       /\ (CallBy(u) /\ u \in cleared
             => /\ ~Rejected(last'.res, "penalty")
                /\ ~Rejected(last'.res, "rate_limit")
                /\ (Admitted(last'.res)
                      => u \in DOMAIN userLimits'
                         /\ userLimits'[u] = FreshEntry))]_vars

\* a user under an active penalty has just been cleared, while another user
\* and a chat are tracked
C6_Witness ==
  /\ last.op = "clearUser"
  /\ last.found = "penalized"
  /\ last.user \in cleared
  /\ last.user \notin DOMAIN userLimits
  /\ DOMAIN userLimits # {}
  /\ DOMAIN chatLimits # {}

\* ------------------------------------------------------------------------
\* C7: of the requests into a chat that pass the user-level checks, the
\* first 5N inside one chat window are admitted and every further one inside
\* that window is rejected with chat_limit, whoever sends it.
\* ------------------------------------------------------------------------
C7_ChatLimit ==
  [][\A u \in Users :
       /\ CallBy(u)
       /\ last'.chat # 0
       /\ ~Rejected(last'.res, "penalty")
       /\ ~Rejected(last'.res, "rate_limit")
       => LET w == chatWin[last'.chat]
              N == globalConfig.maxRequests
          IN  IF InWin(w, now, globalConfig) /\ w.n >= 5 * N
                THEN Rejected(last'.res, "chat_limit")
                ELSE Admitted(last'.res)]_vars

\* the (5N+1)-th request of a chat window, sent by an untracked user, has
\* just been rejected
C7_Witness ==
  /\ last.op = "check"
  /\ Rejected(last.res, "chat_limit")
  /\ last.user \notin DOMAIN userLimits
  /\ chatWin[last.chat].n = 5 * globalConfig.maxRequests + 1
  /\ chatLimits[last.chat].count = 5 * globalConfig.maxRequests

\* ------------------------------------------------------------------------
\* C8 (as stated): a call for a tracked user at a time at or after the
\* entry's resetTime and penaltyExpires is admitted and starts a new window
\* with count 1.
\* ------------------------------------------------------------------------
C8_LazyReset ==
  [][\A u \in Users :
       CallBy(u) /\ UserExpired(u)
       => /\ Admitted(last'.res)
          /\ userLimits'[u] = FreshEntry]_vars

\* C8 (amended): such a call is never rejected for a user-level reason: it
\* is admitted and starts a new window with count 1, unless the chat it is
\* sent into is at its limit (chat_limit), which leaves the entry as it is.
C8_LazyResetUnlessChat ==
  [][\A u \in Users :
       CallBy(u) /\ UserExpired(u)
       => \/ /\ Admitted(last'.res)
             /\ userLimits'[u] = FreshEntry
          \/ /\ Rejected(last'.res, "chat_limit")
             /\ ChatAtLimit(last'.chat)
             /\ userLimits'[u] = userLimits[u]]_vars

\* a user whose penalty and window had both run out has just been admitted
\* into a new window
C8_Witness ==
  /\ last.op = "check"
  /\ last.found = "expiredPenalty"
  /\ Admitted(last.res)
  /\ userWin[last.user].start = now
  /\ userLimits[last.user] = FreshEntry

\* ------------------------------------------------------------------------
\* C9: the sweep removes a user entry iff its window has run out and it has
\* no penalty or an expired one, and a chat entry iff its window has run
\* out; what it keeps is unchanged.
\* ------------------------------------------------------------------------
C9_Sweep ==
  [][last'.op = "cleanup" =>
       /\ DOMAIN userLimits' = {u \in DOMAIN userLimits : ~UserExpired(u)}
       /\ \A u \in DOMAIN userLimits' : userLimits'[u] = userLimits[u]
       /\ DOMAIN chatLimits' =
            {c \in DOMAIN chatLimits : now < chatLimits[c].resetTime}
       /\ \A c \in DOMAIN chatLimits' : chatLimits'[c] = chatLimits[c]]_vars

\* the sweep has just kept a user whose window has run out but whose penalty
\* is active, next to a user inside an unexpired window
C9_Witness ==
  /\ last.op = "cleanup"
  /\ \E u, v \in DOMAIN userLimits :
       /\ now >= userLimits[u].resetTime /\ ActivePenalty(u)
       /\ now < userLimits[v].resetTime

\* ------------------------------------------------------------------------
\* The security stage: vocabulary
\* ------------------------------------------------------------------------
\* the enabled checks in the order of the stage
EnabledChecks == SelectSeq(Order, StepEnabled)
IsPrefix(s, t) == Len(s) <= Len(t) /\ SubSeq(t, 1, Len(s)) = s

\* the invocation has evaluated every enabled check and none has failed
PassedAll(r) ==
  /\ r.pc \in {"next", "errReply", "done"}
  /\ r.failed = "none"

\* the checks are evaluated in the fixed order, and an invocation one of
\* whose checks failed has attempted one reply, evaluated no check after the
\* failing one and not called next
StopsAtFirstFailure(r) ==
  /\ IsPrefix(r.checks, EnabledChecks)
  /\ r.failed # "none" =>
       /\ r.checks # <<>>
       /\ r.checks[Len(r.checks)] = r.failed
       /\ r.replies = 1
       /\ r.nexts = 0

EventCount(r, event) ==
  Cardinality({k \in 1..Len(r.events) : r.events[k] = event})

\* ------------------------------------------------------------------------
\* C11: an exception raised while the stage runs its steps 1-5 is caught
\* inside the stage: the stage attempts one reply, the sanitized message,
\* emits security_middleware_error exactly when logSecurityEvents is set,
\* does not call next after the failure (next has been called only when it
\* is next itself that raised) and returns normally to its caller.
\* ------------------------------------------------------------------------
C11_ErrorsCaught ==
  \A i \in Invocations :
    inv[i].raised =>
      /\ inv[i].pc \in {"errReply", "done"}
      /\ inv[i].sanitized = 1
      /\ inv[i].replies = 1
      /\ inv[i].nexts = IF inv[i].failed = "none" THEN 1 ELSE 0
      /\ EventCount(inv[i], "security_middleware_error") =
           IF inv[i].pc = "done" /\ mwConfig.logSecurityEvents THEN 1 ELSE 0

\* two invocations have returned after an exception: in one the chat-type
\* step raised, in the other next raised and the sanitized reply failed too
C11_Witness ==
  /\ mwConfig.logSecurityEvents
  /\ inv["a"].pc = "done" /\ inv["a"].raised
  /\ inv["a"].failed = "chat" /\ inv["a"].nexts = 0
  /\ inv["b"].pc = "done" /\ inv["b"].raised
  /\ inv["b"].failed = "none" /\ inv["b"].nexts = 1
  /\ inv["b"].replyFailed

\* ------------------------------------------------------------------------
\* C14: when the reply of a rejecting step (rate limit, chat type, bot
\* permission, admin) fails, the failure is caught: the stage returns
\* normally after that one reply attempt, has not called next and has
\* recorded the rejection with the event of the step.
\* ------------------------------------------------------------------------
C14_ReplyFailureCaught ==
  \A i \in Invocations :
    (inv[i].failed # "none" /\ inv[i].replyFailed) =>
      \* (the reply that failed is the sanitized one of a chat-type step
      \* that raised)
      \/ inv[i].raised /\ inv[i].failed = "chat"
           /\ inv[i].pc = "done" /\ inv[i].replies = 1 /\ inv[i].nexts = 0
      \/ /\ ~inv[i].raised
         /\ inv[i].pc = "done"
         /\ inv[i].replies = 1
         /\ inv[i].nexts = 0
         /\ EventCount(inv[i], EventOf(inv[i].failed)) = 1

\* the rejection replies of the rate-limit step and of the admin step have
\* both failed, and both invocations have returned
C14_Witness ==
  /\ inv["a"].pc = "done" /\ inv["a"].failed = "rate"
  /\ inv["a"].replyFailed /\ ~inv["a"].raised
  /\ inv["a"].events = <<"rate_limit_exceeded">>
  /\ inv["b"].pc = "done" /\ inv["b"].failed = "admin"
  /\ inv["b"].replyFailed /\ ~inv["b"].raised
  /\ inv["b"].events = <<"admin_permission_denied">>

\* ------------------------------------------------------------------------
\* C15: for a context without sender the stage does not raise, and the steps
\* that need a user id (rate limit, admin) let the request through: an
\* invocation that has returned was rejected by the chat-type or the
\* bot-permission step, or has called next.
\* ------------------------------------------------------------------------
C15_MissingUserSkips ==
  \A i \in Invocations :
    (inv[i].pc = "done" /\ inv[i].from = 0 /\ ~inv[i].raised) =>
      \/ inv[i].failed \in {"chat", "bot"}
      \/ inv[i].failed = "none" /\ inv[i].nexts = 1

\* ------------------------------------------------------------------------
\* The command registry and the resolution of commands
\* ------------------------------------------------------------------------
\* the text is "/", then n word characters, then no word character
IsToken(text, n) ==
  /\ n >= 1 /\ n + 1 <= Len(text)
  /\ text[1] = "/"
  /\ \A k \in 2..(n + 1) : IsWordChar(text[k])
  /\ n + 1 = Len(text) \/ ~IsWordChar(text[n + 2])

\* a and b are the same letter, in whatever case
SameLetter(a, b) ==
  \/ a = b
  \/ \E k \in DOMAIN UpperCase :
       {a, b} = {UpperCase[k], LowerCase[k]}

\* key is token with every capital letter replaced by its small letter
IsLowerCased(key, token) ==
  /\ Len(key) = Len(token)
  /\ \A k \in 1..Len(key) :
       SameLetter(key[k], token[k]) /\ key[k] \notin Range(UpperCase)

\* the registry as the constructor leaves it
IsDefaultRegistry == commands = RegisterAll(EmptyMap, DefaultRegistrations, 1)

\* C16: a text that is "/", word characters and anything after them that is
\* no word character (a mention of the bot, arguments) resolves to the
\* registration stored under the lower-cased word characters: its handler is
\* the one to run, and the command is unknown when nothing is stored there;
\* in the registry as constructed "/id" resolves to the handler of chatid; a
\* text that is absent, does not start with "/" or is "/" alone is ignored,
\* which is a return without reply, middleware or handler.
C16_Resolution ==
  answer.op = "route" =>
    LET text == answer.text
        r == answer.result
    IN  /\ (text = << >> \/ text[1] # "/" \/ text = <<"/">>) =>
             r = Decision("ignored", NoCommand, NoHandler)
        /\ \A n \in 1..Len(text) :
             IsToken(text, n) =>
               /\ IsLowerCased(r.key, SubSeq(text, 2, n + 1))
               /\ IF r.key \in DOMAIN commands
                    THEN /\ r.outcome \in {"execute", "invalidContext"}
                         /\ r.handler = commands[r.key].handler
                    ELSE r = Decision("unknown", r.key, NoHandler)
               /\ (IsDefaultRegistry /\ r.key \in {Name_id, Name_chatid}) =>
                    r.handler = "chatIdHandler.handle"

\* "/CHATID@somebot extra" has reached the handler of chatid
C16_Witness ==
  /\ answer.op = "route"
  /\ answer.text = CommandText(ToUpperCase(Name_chatid), <<"@", "s", "o", "m", "e", "b", "o", "t">>,
                               <<" ", "e", "x", "t", "r", "a">>)
  /\ answer.result = Decision("execute", Name_chatid, "chatIdHandler.handle")
  /\ C16_Resolution

\* C18: a command whose registration gives no allowedChatTypes, or gives the
\* empty list, passes the registry-level check of routeCommand in private,
\* group, supergroup and channel chats, so that routing goes on to the chain.
C18_AbsentOrEmptyAllowsAll ==
  (/\ answer.op = "route"
   /\ answer.chatType \in ChatTypes
   /\ answer.result.key \in DOMAIN commands
   /\ commands[answer.result.key].allowedChatTypes.value = {}) =>
     answer.result.outcome = "execute"

\* C19: after any sequence of registerCommand calls every key of the registry
\* holds the handler that the command it was last registered for holds.
C19_AliasesFollowCommand ==
  \A key \in DOMAIN commands :
    commands[key].handler = commands[aliasOf[key]].handler

\* the names of the commands that have been registered, aliases left out
CanonicalNames == {aliasOf[key] : key \in DOMAIN commands}

\* C20: getRegisteredCommands returns one entry for every registered command
\* and none under the name of an alias; isCommandRegistered is true for a
\* command and for each of its aliases, with or without a leading slash and
\* in any letter case.
C20_ListedOncePerCommand ==
  /\ {entry.command : entry \in GetRegisteredCommands(commands)}
       = CanonicalNames
  /\ Cardinality(GetRegisteredCommands(commands)) = Cardinality(CanonicalNames)
  /\ answer.op = "isRegistered" =>
       \A key \in DOMAIN commands :
         (\E v \in CaseVariants(key) : answer.text \in {v, <<"/">> \o v}) =>
           answer.result.outcome = "true"

\* ------------------------------------------------------------------------
\* CommandRouter.routeCommand
\* ------------------------------------------------------------------------
InFlight(i) == route[i].pc \notin {"idle", "done", "rejected"}

C17_InvalidContextRejected ==
  [][\A i \in Invocations :
       LET r == route'[i]
           key == ExtractCommand(r.text)
           starts == route[i].pc \in {"idle", "done"} /\ r.pc # route[i].pc
       IN  /\ (/\ starts
                /\ key \in DOMAIN commands
                /\ commands[key].allowedChatTypes.given
                /\ r.chatType \notin commands[key].allowedChatTypes.value) =>
                  r.decision = "invalidContext"
           /\ r.decision = "invalidContext" =>
                /\ r.replies = 1
                /\ r.replyTypes = commands[key].allowedChatTypes.value
                /\ r.handlerCalls = 0 /\ r.stagesRun = << >>
                /\ inv'[i] = NewInvocation(NoContext, "idle")
                /\ r # route[i] => UNCHANGED rlVars]_vars

\* the command for private chats was sent in a group and has been rejected
\* while the limiter held a count of the user
C17_Witness ==
  \E i \in Invocations :
    /\ route[i].pc = "done" /\ route[i].decision = "invalidContext"
    /\ route[i].chatType = "group" /\ route[i].replyTypes = {"private"}
    /\ route[i].text = CommandText(Name_x, << >>, << >>)
    /\ userLimits # EmptyMap

\* a stage after the security stage has returned without calling next: the
\* security stage called next, nothing threw and the handler was not called
Blocked(i) ==
  /\ route[i].decision = "execute" /\ route[i].pc \in {"chain", "done"}
  /\ inv[i].pc = "done" /\ inv[i].nexts = 1
  /\ ~route[i].thrown /\ route[i].handlerCalls = 0

\* C21: the stages of an invocation run in the order of the chain, the
\* security stage first and the stages added by callers after it; the handler
\* is called at most once and only after every stage has run and called next;
\* when a stage returns without calling next and without a reply, the handler
\* is not called and the invocation ends with no reply at all.
C21_StagesInOrder ==
  \A i \in Invocations :
    route[i].decision = "execute" =>
      /\ route[i].stagesRun # << >>
      /\ route[i].stagesRun[1] = "security"
      /\ IsPrefix(route[i].stagesRun, middlewares)
      /\ route[i].handlerCalls <= 1
      /\ route[i].handlerCalls = 1 =>
           /\ route[i].stagesRun = middlewares
           /\ inv[i].nexts = 1 /\ inv[i].failed = "none"
      /\ Blocked(i) =>
           /\ route[i].replies = 0 /\ inv[i].replies = 0
           /\ route[i].handleErrors = 0

\* the stage of a caller, added after the logging stage or the security
\* stage, has returned without calling next
C21_Witness ==
  \E i \in Invocations :
    /\ Blocked(i) /\ route[i].pc = "done"
    /\ route[i].stagesRun = middlewares
    /\ middlewares[Len(middlewares)] = "custom"
    /\ inv[i].replies = 0

Returned(op) == answer.op = op /\ answer.state = "returned"

\* the context names a chat: it has a chat id and a chat type
HasChat(ctx) == ctx.chat # 0 /\ ctx.chatType # "none"

\* C23: checkBotPermissions is true in a private chat; in a group or
\* supergroup it is true iff the bot's status is member, administrator or
\* creator; in a channel iff the status is administrator or creator; it is
\* false for any other chat type and for a missing chat.
C23_BotPermissionTable ==
  Returned("checkBotPermissions") =>
    LET ctx == answer.ctx
        looked == answer.me = "ok" /\ answer.member \in Statuses
    IN  /\ (HasChat(ctx) /\ ctx.chatType = "private") => answer.result = TRUE
        /\ (HasChat(ctx) /\ looked
               /\ ctx.chatType \in {"group", "supergroup"}) =>
             answer.result =
               (answer.member \in {"member", "administrator", "creator"})
        /\ (HasChat(ctx) /\ looked /\ ctx.chatType = "channel") =>
             answer.result = (answer.member \in {"administrator", "creator"})
        /\ (~HasChat(ctx) \/ ctx.chatType \notin ChatTypes) =>
             answer.result = FALSE

\* the bot is an ordinary member of a channel and has been refused
C23_Witness ==
  /\ Returned("checkBotPermissions")
  /\ answer.ctx.chatType = "channel" /\ answer.ctx.chat = 1
  /\ answer.me = "ok" /\ answer.member = "member"
  /\ answer.result = FALSE

\* C24: when getMe or getChatMember throws or is missing in a chat that is
\* not private, checkBotPermissions and checkUserAdminPermissions return
\* false; they return a boolean in every case, never an exception.
C24_FailClosed ==
  (Returned("checkBotPermissions") \/ Returned("checkUserAdminPermissions"))
    => /\ answer.result \in BOOLEAN
       /\ (/\ answer.ctx.chatType # "private"
            /\ \/ answer.member \in {"missing", "throws"}
               \/ answer.op = "checkBotPermissions" /\ answer.me # "ok") =>
              answer.result = FALSE

\* getChatMember threw for the requester in a group
C24_Witness ==
  /\ Returned("checkUserAdminPermissions")
  /\ answer.ctx = [from |-> 1, chat |-> 1, chatType |-> "group"]
  /\ answer.member = "throws" /\ answer.lookups = 1
  /\ answer.result = FALSE

\* C25: checkUserAdminPermissions is true in a private chat whatever the
\* lookup would answer and whether or not there is a requester id, and makes
\* no lookup there; in any other chat type it is true iff the status looked
\* up is administrator or creator.
C25_PrivateAlwaysAdmin ==
  Returned("checkUserAdminPermissions") =>
    LET ctx == answer.ctx
    IN  /\ (HasChat(ctx) /\ ctx.chatType = "private") =>
             answer.result = TRUE /\ answer.lookups = 0
        /\ (HasChat(ctx) /\ ctx.chatType # "private") =>
             answer.result =
               /\ answer.lookups = 1
               /\ answer.member \in {"administrator", "creator"}

\* the classes of safe messages in the order of their tests
SanitizePriority ==
  <<"forbidden", "notFound", "rateLimit", "badRequest", "config">>

\* the first class in that order that a phrase of the message stands for
ExpectedMessage(parts) ==
  IF \E k \in DOMAIN SanitizePriority :
       SanitizePriority[k] \in ErrorClasses(parts)
    THEN SanitizePriority[
           CHOOSE k \in DOMAIN SanitizePriority :
             /\ SanitizePriority[k] \in ErrorClasses(parts)
             /\ \A j \in 1..(k - 1) :
                  SanitizePriority[j] \notin ErrorClasses(parts)]
    ELSE "generic"

\* C26: sanitizeErrorMessage returns the fixed message of the first class,
\* in the order forbidden or blocked, not found, too many requests or rate
\* limit, bad request, unauthorized or token, that the error text mentions
\* in whatever letter case, and the generic message when it mentions none;
\* the result is always one of the six fixed messages.
C26_SanitizeByPriority ==
  Returned("sanitizeErrorMessage") =>
    /\ answer.result \in SafeMessages
    /\ answer.result = ExpectedMessage(answer.parts)

\* "NOT FOUND: Forbidden" has been answered with the forbidden message
C26_Witness ==
  /\ Returned("sanitizeErrorMessage")
  /\ answer.parts = <<<<4, TRUE>>, <<1, FALSE>>>>
  /\ answer.result = "forbidden"

\* C27: the handler of a command registered with requiresAdmin is called in
\* a chat that is not private only for a requester who is administrator or
\* creator of the chat.
C27_AdminOnly ==
  \A i \in Invocations :
    LET key == ExtractCommand(route[i].text)
    IN  (/\ route[i].handlerCalls > 0
         /\ commands[key].requiresAdmin
         /\ route[i].chatType # "private") =>
           route[i].requester \in {"administrator", "creator"}

\* C29: with logSecurityEvents false the security stage emits no security
\* event, whatever the outcome of an invocation.
C29_NoEventsWhenDisabled ==
  ~mwConfig.logSecurityEvents =>
    \A i \in Invocations : inv[i].events = << >>

\* ------------------------------------------------------------------------
\* C28
\* ------------------------------------------------------------------------
\* the entry the stage holds for a user, and the step of the stage for a
\* request of user u
StageEntry(s, u) == s.userRequests[u]
StageStepFor(u) == rateStage' # rateStage /\ rateStage'.last.user = u

ExhaustedRetryable ==
  /\ retry.pc = "rejected"
  /\ \A k \in DOMAIN retry.failures : retry.failures[k] = "retryable"

\* the call is under way, and the call has ended
RetryRunning == retry.pc \in {"calling", "sleeping"}
RetryEnded == retry.pc \in {"resolved", "rejected"}

StartEnds == bot.pc # "idle" /\ bot'.pc = "idle"
StopCalled ==
  /\ bot'.pc = bot.pc
  /\ bot' # bot
  /\ bot'.last \in {"stopped", "stopNoop", "stopFailed"}

\* C32 as stated: isActive is false after construction, true after every
\* successful start, false after every stop that returns and after every
\* failed start.
C32_Lifecycle ==
  /\ bot.last = "none" => ~bot.isRunning
  /\ bot.last = "started" => bot.isRunning
  /\ bot.last \in {"stopped", "stopNoop"} => ~bot.isRunning
  /\ bot.last = "startFailed" => ~bot.isRunning

\* C32: isActive is false after construction, true after every successful
\* start and false after every stop that returns; a failed start leaves it
\* as it was; stop on a bot that is not running is a no-op that neither
\* throws nor stops the transport nor touches the limiter; stop on a running
\* bot stops the transport once, and when that throws stop throws and
\* isActive stays true; a start launches the transport at most once, and
\* once when it succeeds.
C32_LifecycleKeepsFailedStart ==
  /\ [](/\ bot.last = "none" => ~bot.isRunning
        /\ bot.last = "started" => bot.isRunning
        /\ bot.last \in {"stopped", "stopNoop"} => ~bot.isRunning
        /\ bot.last = "stopFailed" => bot.isRunning)
  /\ [][/\ StartEnds
             => /\ bot'.last \in {"started", "startFailed"}
                /\ bot'.last = "started" => bot.pc = "launch"
                /\ bot'.last = "startFailed"
                     => bot'.isRunning = bot.isRunning
                /\ bot'.stops = bot.stops
        /\ bot'.launches # bot.launches
             => /\ bot'.launches = bot.launches + 1
                /\ bot.pc = "getMe" /\ bot'.pc = "launch"
        /\ StopCalled
             => /\ bot'.launches = bot.launches
                /\ IF bot.isRunning
                     THEN /\ bot'.stops = bot.stops + 1
                          /\ ~cleanupInterval'
                          /\ bot'.last \in {"stopped", "stopFailed"}
                     ELSE /\ bot'.last = "stopNoop"
                          /\ bot'.stops = bot.stops
                          /\ UNCHANGED <<rlVars, histVars>>
        /\ bot'.stops # bot.stops => StopCalled
       ]_vars

\* two cycles of start and stop have run and a further stop was a no-op
C32_Witness ==
  /\ bot.last = "stopNoop"
  /\ bot.launches = 2
  /\ bot.stops = 2
  /\ ~bot.isRunning

\* ------------------------------------------------------------------------
\* C33
\* ------------------------------------------------------------------------
\* a trigger arrives in this step while a shutdown has been entered
TriggerDuringShutdown ==
  /\ proc.isShuttingDown
  /\ proc' # proc
  /\ proc'.pc = proc.pc
  /\ proc'.timer = proc.timer

\* C33: graceful shutdown is entered at most once: under any sequence of
\* triggers, also one that arrives while the shutdown awaits bot.stop, the
\* handler calls bot.stop at most once; a trigger that arrives during the
\* shutdown forces exit with code 1 and stops nothing; a bot.stop that fails
\* leads to exit with code 1.
C33_ShutdownOnce ==
  /\ [](proc.stopCalls <= 1)
  /\ [][/\ TriggerDuringShutdown
             => /\ proc'.exits = Append(proc.exits, 1)
                /\ proc'.stopCalls = proc.stopCalls
                /\ UNCHANGED <<bot, rlVars>>
        /\ (proc.pc = "awaitStop" /\ proc'.pc = "done")
             => proc'.exits =
                  Append(proc.exits,
                         IF proc.stopFailed THEN 1 ELSE proc.exitCode)
        /\ proc'.stopCalls # proc.stopCalls
             => ~proc.isShuttingDown /\ proc'.isShuttingDown
       ]_vars

\* a second trigger has arrived while the shutdown awaits a bot.stop that
\* fails, and exit was forced with code 1
C33_Witness ==
  /\ proc.pc = "awaitStop"
  /\ proc.during
  /\ proc.stopFailed
  /\ proc.stopCalls = 1
  /\ proc.exits = <<1>>
  /\ bot.isRunning

\* ------------------------------------------------------------------------
\* C40
\* ------------------------------------------------------------------------
\* C40: whenever the bot is active, also after a stop followed by a new
\* start, the cleanup sweep of the rate limiter is scheduled.
C40_SweepScheduledWhileActive == bot.isRunning => cleanupInterval

\* ---- C34: a rejected checkRateLimit call records nothing ----

\* the step is a checkRateLimit call of user u that was rejected
RejectedCallBy(u) == CallBy(u) /\ last'.res.isLimited

\* the entry of user u differs at most in penaltyExpires and penaltyCount
OnlyPenaltyChanged(u) ==
  /\ DOMAIN userLimits' = DOMAIN userLimits
  /\ \A v \in DOMAIN userLimits : v # u => userLimits'[v] = userLimits[v]
  /\ u \in DOMAIN userLimits =>
        /\ userLimits'[u].count = userLimits[u].count
        /\ userLimits'[u].resetTime = userLimits[u].resetTime

WindowRunning(m, k, t) == k \in DOMAIN m /\ t < m[k].resetTime

\* invocation i passes the rate-limit step in this step
RateStepPassed(i) == inv[i].pc = "rate" /\ inv'[i].pc \notin {"rate", "reply"}

\* the request is recorded in the entry of key k: one more in the running
\* window, or the first of a new window
Recorded(m, mAfter, k, t) ==
  /\ k \in DOMAIN mAfter
  /\ IF WindowRunning(m, k, t)
       THEN /\ mAfter[k].count = m[k].count + 1
            /\ mAfter[k].resetTime = m[k].resetTime
       ELSE /\ mAfter[k].count = 1
            /\ mAfter[k].resetTime = t + globalConfig.timeWindow

\* no running window counts more than its limit
CountsWithinLimits ==
  /\ \A u \in DOMAIN userLimits :
        WindowRunning(userLimits, u, now)
          => userLimits[u].count <= globalConfig.maxRequests
  /\ \A c \in DOMAIN chatLimits :
        WindowRunning(chatLimits, c, now)
          => chatLimits[c].count <= ChatFactor * globalConfig.maxRequests

\* C35 (as stated): under any interleaving of in-flight invocations, every
\* request that passes the rate-limit step is recorded in the window count of
\* its user and of its chat, and no running window of a user counts more
\* than maxRequests nor of a chat more than 5 x maxRequests: the stage admits
\* at most maxRequests requests of a user and 5 x maxRequests requests into a
\* chat inside one window.
C35_AdmittedWithinLimits ==
  [][/\ CountsWithinLimits'
     /\ \A i \in Invocations : RateStepPassed(i) =>
           /\ inv[i].from # 0
                => Recorded(userLimits, userLimits', inv[i].from, now)
           /\ inv[i].chat # 0
                => Recorded(chatLimits, chatLimits', inv[i].chat, now)]_vars

\* C35 (amended): the same for the requests that carry a sender id; a
\* request without sender passes the rate-limit step unrecorded.
C35_IdentifiedAdmittedWithinLimits ==
  [][/\ CountsWithinLimits'
     /\ \A i \in Invocations : RateStepPassed(i) =>
           IF inv[i].from # 0
             THEN /\ Recorded(userLimits, userLimits', inv[i].from, now)
                  /\ inv[i].chat # 0
                       => Recorded(chatLimits, chatLimits', inv[i].chat, now)
             ELSE UNCHANGED <<userLimits, chatLimits>>]_vars

\* the fifth request of the chat's window is suspended in its membership
\* lookup while a later request of the same user has overtaken it and is
\* rejected by the user's limit
C35_Witness ==
  /\ inv["a"].pc = "botLookup" /\ inv["a"].from = 1
  /\ inv["b"].pc = "reply" /\ inv["b"].failed = "rate" /\ inv["b"].from = 1
  /\ last.op = "check" /\ Rejected(last.res, "rate_limit")
  /\ chatLimits[1].count = ChatFactor * globalConfig.maxRequests
  /\ WindowRunning(chatLimits, 1, now)

\* ---- C37: quota is consumed before the later checks ----

\* invocation i is rejected in this step by a step after the rate limit
LaterRejection(i) ==
  /\ inv[i].pc # "reply" /\ inv'[i].pc = "reply"
  /\ inv'[i].failed \in {"chat", "bot", "admin"}

\* invocation i is rejected in this step by the user's limit
RateLimitRejection(i) ==
  /\ inv[i].pc = "rate" /\ inv'[i].pc = "reply"
  /\ Rejected(last'.res, "rate_limit")

\* C37: a request with a sender that passes the rate-limit step is counted
\* in the window of its user and of its chat at that step, and a rejection
\* by the chat-type, bot-permission or admin step leaves both counts as they
\* are; a request that finds the user's count at maxRequests in a running
\* window is rejected with rate_limit and arms a penalty, whether or not the
\* counted requests reached the handler.
C37_QuotaConsumedBeforeLaterChecks ==
  [][\A i \in Invocations :
       /\ (RateStepPassed(i) /\ inv[i].from # 0)
            => /\ Recorded(userLimits, userLimits', inv[i].from, now)
               /\ Recorded(chatLimits, chatLimits', inv[i].chat, now)
       /\ LaterRejection(i) => UNCHANGED <<userLimits, chatLimits>>
       /\ (inv[i].pc = "rate" /\ inv[i].from # 0
              /\ WindowRunning(userLimits, inv[i].from, now)
              /\ ~ActivePenalty(inv[i].from)
              /\ userLimits[inv[i].from].count >= globalConfig.maxRequests
              /\ inv'[i].pc # "rate")
            => /\ RateLimitRejection(i)
               /\ userLimits'[inv[i].from].penaltyExpires > now]_vars

\* the only request of user 1 counted in the running window was rejected by
\* the chat-type step, and the next request of the user is rejected with
\* rate_limit and has armed a penalty
C37_Witness ==
  /\ inv["a"].pc = "done" /\ inv["a"].failed = "chat" /\ inv["a"].from = 1
  /\ inv["b"].pc = "reply" /\ inv["b"].failed = "rate" /\ inv["b"].from = 1
  /\ last.op = "check" /\ Rejected(last.res, "rate_limit")
  /\ WindowRunning(userLimits, 1, now)
  /\ userLimits[1].count = 1 /\ chatLimits[1].count = 1
  /\ WindowRunning(chatLimits, 1, now)
  /\ userLimits[1].penaltyExpires > now

\* ---- C39: the reported remainingTime as a wait ----

\* C39: after a rejection of user u at time t with reason penalty or
\* rate_limit and remainingTime r, a request of u at t + 1000 r, with no
\* request in between and no chat limit in the way, is allowed.
C39_RemainingTimeSufficient ==
  [][\A u \in Users :
       (CallBy(u) /\ last'.res.isLimited
          /\ last'.res.reason \in {"penalty", "rate_limit"})
       => ~CheckRateLimit(userLimits', chatLimits', u, 0,
                          now + MsPerSecond * last'.res.remainingTime,
                          globalConfig).res.isLimited]_vars

\* ---- C38: handler and stages per route invocation ----

\* the number of times stage s was invoked in a chain run
TimesRun(stagesRun, s) ==
  Cardinality({k \in DOMAIN stagesRun : stagesRun[k] = s})

\* C38: in every route invocation, whatever the stages do (a stage that
\* calls next twice included), the registered handler is invoked at most
\* once and each stage at most once.
C38_HandlerAndStagesAtMostOnce ==
  \A i \in Invocations :
    /\ route[i].handlerCalls <= 1
    /\ \A s \in {"security", "logging", "custom"} :
         TimesRun(route[i].stagesRun, s) <= 1

\* ---- C36: the sweep is observationally transparent ----

\* C36: whatever sweeps ran between the calls, every checkRateLimit call
\* returns the result (isLimited, reason, remainingTime) that the same
\* sequence of calls returns without any sweep.
C36_SweepTransparent ==
  [][\A u \in Users : CallBy(u) =>
       last'.res = UnsweptResult(u, last'.chat).res]_vars

\* a sweep has removed the entry of a user that the limiter without sweeps
\* still holds, and a later call into a chat was rejected, alike in both
C36_Witness ==
  /\ last.op = "check" /\ last.res.isLimited /\ last.chat # 0
  /\ \E u \in DOMAIN unswept.ul : u \notin DOMAIN userLimits
  /\ last.user \in DOMAIN userLimits
  /\ unswept.ul[last.user] = userLimits[last.user]

====
